---- MODULE Spec2Model ----
(***************************************************************************)
(* A model of the compiler pipeline of Hassandahiru/Compiler-in-Go:        *)
(* semantic analysis over the AST (internal/semantic, internal/symtab,     *)
(* internal/semantic/types), IR construction (internal/ir/builder.go),     *)
(* IR verification, constant folding and dead-code elimination             *)
(* (internal/optimizer), and the driver (cmd/compiler/main.go).            *)
(*                                                                         *)
(* AST nodes are records.  A node is identified by its path from the file  *)
(* root (a sequence of child indices); the path stands for the node's      *)
(* pointer (the key of Analyzer.exprTypes) and for its source position.    *)
(***************************************************************************)
EXTENDS Integers, Sequences, FiniteSets, TLC

\* ------------------------------------------------------------------------
\* Generic helpers
\* ------------------------------------------------------------------------

Put(f, k, v) == (k :> v) @@ f

\* TLC evaluates an operator's arguments and a LET's definitions when they
\* are first read.  Strict(x, e) is e, with x evaluated first: the operators
\* that thread a state through a traversal read the state on entry, which
\* keeps the depth of evaluation that of the traversal.
Strict(x, e) == IF x = x THEN e ELSE x

EmptyMap == [x \in {} |-> 0]

\* With([x \in {e} |-> body]) is body with x bound to the value of e.  The
\* traversals bind their intermediate states this way: x is a bound variable,
\* evaluated once where it is introduced.
With(f) == f[CHOOSE k \in DOMAIN f : TRUE]

Range(s) == {s[i] : i \in DOMAIN s}

RECURSIVE SeqFilter(_, _)
\* the subsequence of s whose indices are in keep, in order
SeqFilter(s, keep) ==
    IF s = <<>> THEN <<>>
    ELSE With([n \in {Len(s)} |->
         With([front \in {SeqFilter(SubSeq(s, 1, n - 1), keep)} |->
            IF n \in keep THEN Append(front, s[n]) ELSE front])])

\* ------------------------------------------------------------------------
\* Types (internal/semantic/types/types.go)
\* ------------------------------------------------------------------------

Ty(k) == [k |-> k]

Invalid == Ty("invalid")
Void == Ty("void")
IntT == Ty("int")
FloatT == Ty("float")
BoolT == Ty("bool")
StringT == Ty("string")
CharT == Ty("char")
NilT == Ty("nil")

NewFunction(parameters, returnType) ==
    [k |-> "func", params |-> parameters, ret |-> returnType]

\* size is -1 for a slice
NewArray(elementType, size) == [k |-> "array", elem |-> elementType, size |-> size]

\* name is "" for an anonymous struct; a field is its name and its type
NewStruct(name, fields) == [k |-> "struct", name |-> name, fields |-> fields]

RECURSIVE Equals(_, _)
Equals(t, other) ==
    CASE t.k = "invalid" -> FALSE
      [] t.k = "array" ->
            /\ other.k = "array"
            /\ t.size = other.size
            /\ Equals(t.elem, other.elem)
      [] t.k = "struct" ->
            /\ other.k = "struct"
            /\ IF t.name # "" /\ other.name # "" THEN t.name = other.name
               ELSE /\ Len(t.fields) = Len(other.fields)
                    /\ \A i \in 1..Len(t.fields) :
                          /\ t.fields[i].name = other.fields[i].name
                          /\ Equals(t.fields[i].type, other.fields[i].type)
      [] t.k = "func" ->
            /\ other.k = "func"
            /\ Equals(t.ret, other.ret)
            /\ Len(t.params) = Len(other.params)
            /\ \A i \in 1..Len(t.params) : Equals(t.params[i], other.params[i])
      [] OTHER -> other.k = t.k

AssignableTo(t, other) ==
    CASE t.k = "invalid" -> FALSE
      [] t.k = "void" -> FALSE
      [] t.k = "nil" -> other.k \in {"array", "struct"}
      [] OTHER -> Equals(t, other)

IsNumeric(t) == t.k \in {"int", "float"}
IsComparable(t) == t.k \in {"int", "float", "bool", "string", "char"}
IsOrdered(t) == t.k \in {"int", "float", "string", "char"}
IsBooleanType(t) == t.k = "bool"
IsIntegerType(t) == t.k = "int"

\* ------------------------------------------------------------------------
\* Symbol table (internal/symtab/scope.go, symbol.go)
\*
\* Scopes live in a sequence; a scope's pointer is its index, 0 is nil.
\* A symbol's pointer is the pair (scope, name).
\* ------------------------------------------------------------------------

NoSym == [scope |-> 0, name |-> ""]

NewScope(scopes, kind, parent) ==
    Append(scopes,
           [kind |-> kind, parent |-> parent, symbols |-> EmptyMap,
            depth |-> IF parent = 0 THEN 0 ELSE scopes[parent].depth + 1])

LookupLocal(scopes, s, name) ==
    IF name \in DOMAIN scopes[s].symbols THEN [scope |-> s, name |-> name] ELSE NoSym

DefineFails(scopes, s, name) == name \in DOMAIN scopes[s].symbols

\* a Define that replaces the binding the scope has
DefineOverwrites(scopes, s, symbol) ==
    [scopes EXCEPT ![s].symbols =
        Put(@, symbol.name,
            [symbol EXCEPT !.index = Cardinality(DOMAIN scopes[s].symbols)])]

\* Scope.Define: an error and no change when the name is already in this
\* scope; otherwise the symbol is stored with its insertion index.
Define(scopes, s, symbol) ==
    IF DefineFails(scopes, s, symbol.name) THEN scopes
    ELSE [scopes EXCEPT ![s].symbols =
            Put(@, symbol.name,
                [symbol EXCEPT !.index = Cardinality(DOMAIN scopes[s].symbols)])]

\* a lookup that prefers the binding of the parent to the scope's own
LookupParentFirst(scopes, s, name) ==
    IF scopes[s].parent # 0 /\ name \in DOMAIN scopes[scopes[s].parent].symbols
    THEN [scope |-> scopes[s].parent, name |-> name]
    ELSE IF name \in DOMAIN scopes[s].symbols THEN [scope |-> s, name |-> name]
    ELSE NoSym

RECURSIVE Lookup(_, _, _)
\* the symbol Scope.Lookup returns: the nearest binding on the parent chain
Lookup(scopes, s, name) ==
    IF name \in DOMAIN scopes[s].symbols THEN [scope |-> s, name |-> name]
    ELSE IF scopes[s].parent # 0 THEN Lookup(scopes, scopes[s].parent, name)
    ELSE NoSym

\* Symbol.MarkUsed, applied by Lookup to the symbol it returns
MarkUsed(scopes, ref) ==
    IF ref = NoSym THEN scopes
    ELSE [scopes EXCEPT ![ref.scope].symbols[ref.name].used = TRUE]

SymOf(scopes, ref) == scopes[ref.scope].symbols[ref.name]

CanAssign(sym) == ~sym.constant /\ sym.kind \in {"variable", "parameter"}

\* a search that looks at the scope itself and not at the scopes around it
FindInnermostLoop(scopes, s) == IF scopes[s].kind = "loop" THEN s ELSE 0

RECURSIVE FindEnclosingLoop(_, _)
FindEnclosingLoop(scopes, s) ==
    IF scopes[s].kind = "loop" THEN s
    ELSE IF scopes[s].parent # 0 THEN FindEnclosingLoop(scopes, scopes[s].parent)
    ELSE 0

RECURSIVE FindEnclosingLoopOrSwitch(_, _)
FindEnclosingLoopOrSwitch(scopes, s) ==
    IF scopes[s].kind \in {"loop", "switch"} THEN s
    ELSE IF scopes[s].parent # 0
         THEN FindEnclosingLoopOrSwitch(scopes, scopes[s].parent)
    ELSE 0

NewSymbol(name, kind, type) ==
    [name |-> name, kind |-> kind, type |-> type,
     constant |-> FALSE, used |-> FALSE, index |-> 0]

\* ------------------------------------------------------------------------
\* AST (internal/parser/ast).  NoExpr / NoStmt stand for a nil child; a
\* type expression is the name of its identifier, "" when absent.
\* ------------------------------------------------------------------------

NoExpr == [e |-> "none"]
NoStmt == [s |-> "none"]

Lit(t, v) == [e |-> "lit", t |-> t, v |-> v]
IntLit(v) == Lit("int", v)
BoolLit(b) == Lit("bool", IF b THEN 1 ELSE 0)
Id(name) == [e |-> "id", name |-> name]
Bin(op, l, r) == [e |-> "bin", op |-> op, l |-> l, r |-> r]
Un(op, x) == [e |-> "un", op |-> op, x |-> x]
Logical(op, l, r) == [e |-> "logical", op |-> op, l |-> l, r |-> r]
Call(callee, args) == [e |-> "call", callee |-> callee, args |-> args]
Assign(target, value) == [e |-> "assign", target |-> target, value |-> value]
Group(x) == [e |-> "group", x |-> x]

ExprStmt(x) == [s |-> "expr", x |-> x]
Block(body) == [s |-> "block", body |-> body]
If(cond, then, else) == [s |-> "if", cond |-> cond, then |-> then, else |-> else]
While(cond, body) == [s |-> "while", cond |-> cond, body |-> body]
For(init, cond, post, body) ==
    [s |-> "for", init |-> init, cond |-> cond, post |-> post, body |-> body]
Return(value) == [s |-> "return", value |-> value]
Break == [s |-> "break"]
Continue == [s |-> "continue"]
Switch(value, cases) == [s |-> "switch", value |-> value, cases |-> cases]
Case(values, body) == [isDefault |-> FALSE, values |-> values, body |-> body]
Default(body) == [isDefault |-> TRUE, values |-> <<>>, body |-> body]
VarDecl(names, type, init) ==
    [s |-> "var", names |-> names, type |-> type, init |-> init]
Param(name, type) == [name |-> name, type |-> type]
FuncDecl(name, params, ret, body) ==
    [s |-> "func", name |-> name, params |-> params, ret |-> ret, body |-> body]

\* ------------------------------------------------------------------------
\* Semantic analyzer (internal/semantic/analyzer.go, expressions.go)
\*
\* The analyzer state: scopes (the scope heap), cur (currentScope),
\* errors, exprTypes, curFn (currentFunction, a symbol pointer) and ret,
\* the type returned by the last expression visit.
\* ------------------------------------------------------------------------

GlobalScope == 1

\* semantic.New
New ==
    [scopes |-> NewScope(<<>>, "global", 0), cur |-> GlobalScope,
     errors |-> <<>>, exprTypes |-> EmptyMap, curFn |-> NoSym, ret |-> Invalid]

\* an analyzer whose error method records nothing
ErrorIgnored(a, pos, msg) == a

\* Analyzer.error
Error(a, pos, msg) == [a EXCEPT !.errors = Append(@, [pos |-> pos, msg |-> msg])]

enterScope(a, kind) ==
    Strict(a,
    [a EXCEPT !.scopes = NewScope(@, kind, a.cur), !.cur = Len(a.scopes) + 1])

exitScope(a) ==
    Strict(a,
    IF a.scopes[a.cur].parent # 0 THEN [a EXCEPT !.cur = a.scopes[a.cur].parent]
    ELSE a)

\* a.currentScope.Define(symbol) with the error reported at pos
DefineOrError(a, symbol, pos) ==
    Strict(a,
    IF DefineFails(a.scopes, a.cur, symbol.name)
    THEN Error(a, pos, "already declared")
    ELSE [a EXCEPT !.scopes = Define(@, a.cur, symbol)])

\* a.currentScope.Lookup(name): marks the symbol used
LookupUse(a, name) ==
    [a EXCEPT !.scopes = MarkUsed(@, Lookup(a.scopes, a.cur, name))]

SetType(a, p, t) == [a EXCEPT !.exprTypes = Put(@, p, t), !.ret = t]

assignable(a, valueType, targetType, pos) ==
    Strict(a,
    IF AssignableTo(valueType, targetType) THEN a
    ELSE Error(a, pos, "cannot assign"))

BuiltinTypes == {"int", "float", "bool", "string", "char", "void"}

resolveType(a, typeName, pos) ==
    Strict(a,
    IF typeName \in BuiltinTypes THEN [a EXCEPT !.ret = Ty(typeName)]
    ELSE With([ref \in {Lookup(a.scopes, a.cur, typeName)} |->
         With([a1 \in {LookupUse(a, typeName)} |->
            IF ref = NoSym
            THEN [Error(a1, pos, "undefined type") EXCEPT !.ret = Invalid]
            ELSE IF SymOf(a1.scopes, ref).kind \notin {"type", "struct"}
            THEN [Error(a1, pos, "is not a type") EXCEPT !.ret = Invalid]
            ELSE [a1 EXCEPT !.ret = SymOf(a1.scopes, ref).type]])]))

ArithOps == {"+", "-", "*", "/", "%"}
EqOps == {"==", "!="}
RelOps == {"<", "<=", ">", ">="}
BitOps == {"&", "|", "^", "<<", ">>"}

\* the result type and the diagnostic (or "") of a binary operator
BinaryResult(op, left, right) ==
    CASE op \in ArithOps ->
            IF ~IsNumeric(left) \/ ~IsNumeric(right)
            THEN [t |-> Invalid, msg |-> "requires numeric operands"]
            ELSE IF ~Equals(left, right)
            THEN [t |-> Invalid, msg |-> "mismatched types"]
            ELSE [t |-> left, msg |-> ""]
      [] op \in EqOps ->
            IF ~IsComparable(left) \/ ~IsComparable(right)
            THEN [t |-> Invalid, msg |-> "operands must be comparable"]
            ELSE IF ~Equals(left, right)
            THEN [t |-> Invalid, msg |-> "cannot compare"]
            ELSE [t |-> BoolT, msg |-> ""]
      [] op \in RelOps ->
            IF ~IsOrdered(left) \/ ~IsOrdered(right)
            THEN [t |-> Invalid, msg |-> "operands must be ordered"]
            ELSE IF ~Equals(left, right)
            THEN [t |-> Invalid, msg |-> "cannot compare"]
            ELSE [t |-> BoolT, msg |-> ""]
      [] op \in BitOps ->
            IF ~IsIntegerType(left) \/ ~IsIntegerType(right)
            THEN [t |-> Invalid, msg |-> "bitwise operators require integer operands"]
            ELSE [t |-> IntT, msg |-> ""]
      [] OTHER -> [t |-> Invalid, msg |-> "unknown binary operator"]

LiteralType(e) ==
    CASE e.t = "int" -> IntT
      [] e.t = "float" -> FloatT
      [] e.t = "string" -> StringT
      [] e.t = "char" -> CharT
      [] e.t = "bool" -> BoolT
      [] e.t = "nil" -> NilT
      [] OTHER -> Invalid

RECURSIVE VisitExpr(_, _, _)
RECURSIVE VisitArgs(_, _, _, _, _)

\* the loop over expr.Args of VisitCallExpr, from argument i on
VisitArgs(a, args, params, p, i) ==
    Strict(a,
    IF i > Len(args) THEN a
    ELSE With([a1 \in {VisitExpr(a, args[i], p \o <<1 + i>>)} |->
         With([a2 \in {assignable(a1, a1.ret, params[i], p \o <<1 + i>>)} |->
            VisitArgs(a2, args, params, p, i + 1)])]))

VisitExpr(a, e, p) ==
    Strict(a,
    CASE e.e = "bin" ->
            With([a1 \in {VisitExpr(a, e.l, p \o <<1>>)} |->
            With([a2 \in {VisitExpr(a1, e.r, p \o <<2>>)} |->
            With([res \in {BinaryResult(e.op, a1.ret, a2.ret)} |->
            With([a3 \in {IF res.msg = "" THEN a2 ELSE Error(a2, p, res.msg)} |->
               SetType(a3, p, res.t)])])])])
      [] e.e = "un" ->
            With([a1 \in {VisitExpr(a, e.x, p \o <<1>>)} |->
            With([opType \in {a1.ret} |->
               CASE e.op = "-" ->
                      IF ~IsNumeric(opType)
                      THEN SetType(Error(a1, p, "unary - requires numeric operand"), p, Invalid)
                      ELSE SetType(a1, p, opType)
                 [] e.op = "!" ->
                      IF ~IsBooleanType(opType)
                      THEN SetType(Error(a1, p, "unary ! requires boolean operand"), p, Invalid)
                      ELSE SetType(a1, p, BoolT)
                 [] e.op = "~" ->
                      IF ~IsIntegerType(opType)
                      THEN SetType(Error(a1, p, "unary ~ requires integer operand"), p, Invalid)
                      ELSE SetType(a1, p, IntT)
                 [] e.op \in {"++", "--"} ->
                      IF ~IsNumeric(opType)
                      THEN SetType(Error(a1, p, "requires numeric operand"), p, Invalid)
                      ELSE IF e.x.e = "id"
                      THEN With([ref \in {Lookup(a1.scopes, a1.cur, e.x.name)} |->
                           With([a2 \in {LookupUse(a1, e.x.name)} |->
                              IF ref # NoSym /\ ~CanAssign(SymOf(a2.scopes, ref))
                              THEN SetType(Error(a2, p, "cannot modify"), p, opType)
                              ELSE SetType(a2, p, opType)])])
                      ELSE SetType(a1, p, opType)
                 [] OTHER ->
                      SetType(Error(a1, p, "unknown unary operator"), p, Invalid)])])
      [] e.e = "logical" ->
            With([a1 \in {VisitExpr(a, e.l, p \o <<1>>)} |->
            With([a2 \in {VisitExpr(a1, e.r, p \o <<2>>)} |->
            With([a3 \in {IF ~IsBooleanType(a1.ret)
                          THEN Error(a2, p \o <<1>>, "left operand must be boolean")
                          ELSE a2} |->
            With([a4 \in {IF ~IsBooleanType(a2.ret)
                          THEN Error(a3, p \o <<2>>, "right operand must be boolean")
                          ELSE a3} |->
               SetType(a4, p, BoolT)])])])])
      [] e.e = "lit" ->
            With([t \in {LiteralType(e)} |->
               SetType(a, p, t)])
      [] e.e = "id" ->
            With([ref \in {Lookup(a.scopes, a.cur, e.name)} |->
            With([a1 \in {LookupUse(a, e.name)} |->
               IF ref = NoSym
               THEN SetType(Error(a1, p, "undefined: " \o e.name), p, Invalid)
               ELSE IF SymOf(a1.scopes, ref).kind = "type"
               THEN SetType(Error(a1, p, "is a type, not a value"), p, Invalid)
               ELSE SetType(a1, p, SymOf(a1.scopes, ref).type)])])
      [] e.e = "call" ->
            With([a1 \in {VisitExpr(a, e.callee, p \o <<1>>)} |->
            With([funcType \in {a1.ret} |->
               IF funcType.k # "func"
               THEN SetType(Error(a1, p \o <<1>>, "expression is not a function"),
                            p, Invalid)
               ELSE IF Len(e.args) # Len(funcType.params)
               THEN SetType(Error(a1, p, "wrong argument count"), p, funcType.ret)
               ELSE SetType(VisitArgs(a1, e.args, funcType.params, p, 1),
                            p, funcType.ret)])])
      [] e.e = "assign" ->
            With([a1 \in {VisitExpr(a, e.target, p \o <<1>>)} |->
            With([a2 \in {VisitExpr(a1, e.value, p \o <<2>>)} |->
            With([targetType \in {a1.ret} |->
            With([valueType \in {a2.ret} |->
            With([a3 \in {IF e.target.e = "id"
                          THEN With([ref \in {Lookup(a2.scopes, a2.cur, e.target.name)} |->
                               With([au \in {LookupUse(a2, e.target.name)} |->
                                  IF ref # NoSym /\ ~CanAssign(SymOf(au.scopes, ref))
                                  THEN Error(au, p \o <<1>>, "cannot assign to")
                                  ELSE au])])
                          ELSE IF e.target.e \in {"index", "member"} THEN a2
                          ELSE Error(a2, p \o <<1>>, "invalid assignment target")} |->
            With([a4 \in {assignable(a3, valueType, targetType, p \o <<2>>)} |->
               SetType(a4, p, targetType)])])])])])])
      [] e.e = "group" ->
            With([a1 \in {VisitExpr(a, e.x, p \o <<1>>)} |->
               SetType(a1, p, a1.ret)]))

RECURSIVE VisitStmt(_, _, _)
RECURSIVE VisitStmts(_, _, _, _)
RECURSIVE VisitCases(_, _, _, _, _)
RECURSIVE VisitCaseValues(_, _, _, _, _)

\* the declare-or-update loop over decl.Names of VisitVarDecl, from name i on
RECURSIVE VarDeclNames(_, _, _, _, _)
VarDeclNames(a, names, varType, p, i) ==
    Strict(a,
    IF i > Len(names) THEN a
    ELSE With([ref \in {LookupLocal(a.scopes, a.cur, names[i])} |->
         With([a1 \in {IF ref # NoSym
                       THEN [a EXCEPT !.scopes[ref.scope].symbols[ref.name].type = varType]
                       ELSE DefineOrError(a, NewSymbol(names[i], "variable", varType), p)} |->
            VarDeclNames(a1, names, varType, p, i + 1)])]))

VisitVarDecl(a, decl, p) ==
    Strict(a,
    With([a1 \in {IF decl.init # NoExpr THEN VisitExpr(a, decl.init, p \o <<1>>) ELSE a} |->
    With([initType \in {a1.ret} |->
    With([a2 \in {IF decl.type # ""
                  THEN With([r \in {resolveType(a1, decl.type, p)} |->
                          IF decl.init # NoExpr
                          THEN [assignable(r, initType, r.ret, p \o <<1>>) EXCEPT !.ret = r.ret]
                          ELSE r])
                  ELSE IF decl.init # NoExpr THEN [a1 EXCEPT !.ret = initType]
                  ELSE [Error(a1, p, "variable declaration must have type or initializer")
                          EXCEPT !.ret = Invalid]} |->
       VarDeclNames(a2, decl.names, a2.ret, p, 1)])])]))

\* parameter types of VisitFuncDecl, from parameter i on; the types so far in acc
RECURSIVE ResolveParams(_, _, _, _, _)
ResolveParams(a, params, p, i, acc) ==
    Strict(a,
    IF i > Len(params) THEN [a |-> a, types |-> acc]
    ELSE With([r \in {resolveType(a, params[i].type, p \o <<2, i>>)} |->
            ResolveParams(r, params, p, i + 1, Append(acc, r.ret))]))

RECURSIVE DefineParams(_, _, _, _, _)
DefineParams(a, params, types, p, i) ==
    Strict(a,
    IF i > Len(params) THEN a
    ELSE DefineParams(
            DefineOrError(a, NewSymbol(params[i].name, "parameter", types[i]),
                          p \o <<2, i>>),
            params, types, p, i + 1))

VisitFuncDecl(a, decl, p) ==
    Strict(a,
    With([rp \in {ResolveParams(a, decl.params, p, 1, <<>>)} |->
    With([a1 \in {IF decl.ret # "" THEN resolveType(rp.a, decl.ret, p)
                  ELSE [rp.a EXCEPT !.ret = Void]} |->
    With([funcType \in {NewFunction(rp.types, a1.ret)} |->
    With([symbol \in {LookupLocal(a1.scopes, GlobalScope, decl.name)} |->
    With([a2 \in {IF symbol # NoSym
                  THEN [a1 EXCEPT !.scopes[GlobalScope].symbols[decl.name].type = funcType]
                  ELSE a1} |->
    With([a3 \in {[enterScope(a2, "function") EXCEPT !.curFn = symbol]} |->
    With([a4 \in {DefineParams(a3, decl.params, rp.types, p, 1)} |->
    With([a5 \in {IF decl.body # NoStmt THEN VisitStmt(a4, decl.body, p \o <<1>>) ELSE a4} |->
       [exitScope(a5) EXCEPT !.curFn = NoSym]])])])])])])])]))

VisitBreakStmt(a, p) ==
    Strict(a,
    IF FindEnclosingLoopOrSwitch(a.scopes, a.cur) = 0
    THEN Error(a, p, "break outside loop or switch")
    ELSE a)

VisitContinueStmt(a, p) ==
    Strict(a,
    IF FindEnclosingLoop(a.scopes, a.cur) = 0
    THEN Error(a, p, "continue outside loop")
    ELSE a)

VisitReturnStmt(a, stmt, p) ==
    Strict(a,
    IF a.curFn = NoSym THEN Error(a, p, "return outside function")
    ELSE With([expectedType \in {SymOf(a.scopes, a.curFn).type.ret} |->
            IF stmt.value # NoExpr
            THEN With([a1 \in {VisitExpr(a, stmt.value, p \o <<1>>)} |->
                    assignable(a1, a1.ret, expectedType, p \o <<1>>)])
            ELSE IF ~Equals(expectedType, Void)
                 THEN Error(a, p, "expected return value")
                 ELSE a]))

CondCheck(a, p) ==
    Strict(a,
    IF ~IsBooleanType(a.ret) THEN Error(a, p, "condition must be boolean") ELSE a)

VisitStmts(a, stmts, p, i) ==
    Strict(a,
    IF i > Len(stmts) THEN a
    ELSE VisitStmts(VisitStmt(a, stmts[i], p \o <<i>>), stmts, p, i + 1))

VisitCaseValues(a, values, valueType, p, i) ==
    Strict(a,
    IF i > Len(values) THEN a
    ELSE With([a1 \in {VisitExpr(a, values[i], p \o <<1, i>>)} |->
            VisitCaseValues(assignable(a1, a1.ret, valueType, p \o <<1, i>>),
                            values, valueType, p, i + 1)]))

VisitCases(a, cases, valueType, p, j) ==
    Strict(a,
    IF j > Len(cases) THEN a
    ELSE With([clause \in {p \o <<1 + j>>} |->
         With([a1 \in {IF ~cases[j].isDefault
                       THEN VisitCaseValues(a, cases[j].values, valueType, clause, 1)
                       ELSE a} |->
         With([a2 \in {VisitStmts(a1, cases[j].body, clause \o <<2>>, 1)} |->
            VisitCases(a2, cases, valueType, p, j + 1)])])]))

VisitStmt(a, s, p) ==
    Strict(a,
    CASE s.s = "expr" -> VisitExpr(a, s.x, p \o <<1>>)
      [] s.s = "block" ->
            exitScope(VisitStmts(enterScope(a, "block"), s.body, p, 1))
      [] s.s = "if" ->
            With([a1 \in {CondCheck(VisitExpr(a, s.cond, p \o <<1>>), p \o <<1>>)} |->
            With([a2 \in {VisitStmt(a1, s.then, p \o <<2>>)} |->
               IF s.else # NoStmt THEN VisitStmt(a2, s.else, p \o <<3>>) ELSE a2])])
      [] s.s = "while" ->
            With([a1 \in {CondCheck(VisitExpr(a, s.cond, p \o <<1>>), p \o <<1>>)} |->
               exitScope(VisitStmt(enterScope(a1, "loop"), s.body, p \o <<2>>))])
      [] s.s = "for" ->
            With([a1 \in {enterScope(a, "loop")} |->
            With([a2 \in {IF s.init # NoStmt THEN VisitStmt(a1, s.init, p \o <<1>>) ELSE a1} |->
            With([a3 \in {IF s.cond # NoExpr
                          THEN CondCheck(VisitExpr(a2, s.cond, p \o <<2>>), p \o <<2>>)
                          ELSE a2} |->
            With([a4 \in {IF s.post # NoStmt THEN VisitStmt(a3, s.post, p \o <<3>>) ELSE a3} |->
               exitScope(VisitStmt(a4, s.body, p \o <<4>>))])])])])
      [] s.s = "return" -> VisitReturnStmt(a, s, p)
      [] s.s = "break" -> VisitBreakStmt(a, p)
      [] s.s = "continue" -> VisitContinueStmt(a, p)
      [] s.s = "switch" ->
            With([a1 \in {VisitExpr(a, s.value, p \o <<1>>)} |->
            With([valueType \in {a1.ret} |->
               exitScope(VisitCases(enterScope(a1, "switch"), s.cases, valueType, p, 1))])])
      [] s.s = "var" -> VisitVarDecl(a, s, p)
      [] s.s = "func" -> VisitFuncDecl(a, s, p))

\* the loop over d.Names of declareDecl, from name i on
RECURSIVE DeclareNames(_, _, _, _)
DeclareNames(a, names, p, i) ==
    Strict(a,
    IF i > Len(names) THEN a
    ELSE DeclareNames(DefineOrError(a, NewSymbol(names[i], "variable", Invalid), p),
                      names, p, i + 1))

declareDecl(a, decl, p) ==
    Strict(a,
    CASE decl.s = "var" -> DeclareNames(a, decl.names, p, 1)
      [] decl.s = "func" -> DefineOrError(a, NewSymbol(decl.name, "function", Invalid), p)
      [] OTHER -> a)

RECURSIVE DeclareAll(_, _, _)
DeclareAll(a, decls, i) ==
    Strict(a,
    IF i > Len(decls) THEN a
    ELSE DeclareAll(declareDecl(a, decls[i], <<i>>), decls, i + 1))

\* Analyzer.Analyze on the analyzer a: the state is reset, except for the
\* scope heap, which the analyzer keeps
Analyze(a, file) ==
    Strict(a,
    With([a0 \in {[a EXCEPT !.errors = <<>>, !.exprTypes = EmptyMap, !.cur = GlobalScope]} |->
    With([a1 \in {DeclareAll(a0, file, 1)} |->
       VisitStmts(a1, file, <<>>, 1)])]))

GetExprType(a, p) == IF p \in DOMAIN a.exprTypes THEN a.exprTypes[p] ELSE Invalid

\* ------------------------------------------------------------------------
\* IR (internal/ir): values, instructions, basic blocks, functions
\*
\* A Value's pointer is the record itself: parameters, variables and
\* temporaries of a function have distinct ids.  Value.Type is read by no
\* operation modelled here and is left out.  NilV is the nil *Value.
\* A block's pointer is its index in the function's block heap bb;
\* blocks is the list Function.Blocks of block pointers.
\* ------------------------------------------------------------------------

Value(kind, id, name) == [kind |-> kind, id |-> id, name |-> name, t |-> "", c |-> 0]
ConstV(t, c) == [kind |-> "const", id |-> -1, name |-> "", t |-> t, c |-> c]
NilV == Value("nil", -1, "")

IsConstant(v) == v.kind = "const"

BinaryOp(op, dest, left, right) ==
    [op |-> "binop", bop |-> op, dest |-> dest, l |-> left, r |-> right]
UnaryOp(op, dest, operand) == [op |-> "unop", uop |-> op, dest |-> dest, x |-> operand]
Copy(dest, value) == [op |-> "copy", dest |-> dest, src |-> value]
Store(address, value) == [op |-> "store", addr |-> address, src |-> value]
Jump(target) == [op |-> "jump", target |-> target]
Branch(cond, t, f) == [op |-> "branch", cond |-> cond, t |-> t, f |-> f]
CallI(dest, function, args) ==
    [op |-> "call", dest |-> dest, fn |-> function, args |-> args]
ReturnI(value) == [op |-> "return", val |-> value]

\* Instruction.Operands
Operands(i) ==
    CASE i.op = "binop" -> <<i.l, i.r>>
      [] i.op = "unop" -> <<i.x>>
      [] i.op = "copy" -> <<i.src>>
      [] i.op = "store" -> <<i.addr, i.src>>
      [] i.op = "call" -> <<i.fn>> \o i.args
      [] i.op = "return" -> IF i.val # NilV THEN <<i.val>> ELSE <<>>
      [] i.op = "branch" -> <<i.cond>>
      [] OTHER -> <<>>

\* Instruction.Result (NilV when the instruction defines nothing)
Result(i) ==
    IF i.op \in {"binop", "unop", "copy", "call"} THEN i.dest ELSE NilV

IsTerminator(i) == i.op \in {"jump", "branch", "return"}

\* the blocks a terminator names
Targets(i) ==
    CASE i.op = "jump" -> {i.target}
      [] i.op = "branch" -> {i.t, i.f}
      [] OTHER -> {}

NewBasicBlock(label) ==
    [label |-> label, instrs |-> <<>>, succs |-> <<>>, preds |-> <<>>, index |-> 0]

\* BasicBlock.IsTerminated: the last instruction is a terminator
IsTerminated(blk) ==
    Len(blk.instrs) > 0 /\ IsTerminator(blk.instrs[Len(blk.instrs)])

\* BasicBlock.Terminator: the last instruction if it is a jump, a branch or
\* a return, NoInstruction otherwise
NoInstruction == [op |-> "none"]
Terminator(blk) ==
    IF Len(blk.instrs) = 0 THEN NoInstruction
    ELSE IF IsTerminator(blk.instrs[Len(blk.instrs)]) THEN blk.instrs[Len(blk.instrs)]
    ELSE NoInstruction

\* BasicBlock.AddSuccessor on block bid of the heap bb
AddSuccessor(bb, bid, succ) ==
    IF succ \in Range(bb[bid].succs) THEN bb
    ELSE With([bb1 \in {[bb EXCEPT ![bid].succs = Append(@, succ)]} |->
            [bb1 EXCEPT ![succ].preds = Append(@, bid)]])

EntryBlock == 1

NewFunctionIR(name, params, returnType) ==
    [name |-> name, params |-> params, ret |-> returnType,
     blocks |-> <<EntryBlock>>, bb |-> <<NewBasicBlock("entry")>>,
     locals |-> <<>>, nextValueID |-> Len(params)]

NoFn == [name |-> ""]

\* Module.Verify for one function: the labels of the failures
VerifyFunction(fn) ==
    [i \in 1..Len(fn.blocks) |->
        IF ~IsTerminated(fn.bb[fn.blocks[i]]) THEN "no terminator" ELSE ""]
    \o (IF Len(fn.bb[EntryBlock].preds) > 0 THEN <<"entry has predecessors">> ELSE <<>>)

RECURSIVE Verify(_)
\* Module.Verify: the list of failures over all functions
Verify(functions) ==
    IF functions = <<>> THEN <<>>
    ELSE SelectSeq(VerifyFunction(Head(functions)), LAMBDA m : m # "")
         \o Verify(Tail(functions))

\* ------------------------------------------------------------------------
\* IR builder (internal/ir/builder.go)
\*
\* The builder state: analyzer, fn (currentFunc), cur (currentBlock),
\* variables (symbol pointer -> value), namedValues (name -> value),
\* breakTarget, continueTarget (0 is nil), errors, the module's functions
\* and globals, and val, the value returned by the last buildExpr.
\* ------------------------------------------------------------------------

NewBuilder(analyzer) ==
    [analyzer |-> analyzer, fn |-> NoFn, cur |-> 0,
     variables |-> EmptyMap, namedValues |-> EmptyMap,
     breakTarget |-> 0, continueTarget |-> 0, errors |-> <<>>,
     functions |-> <<>>, globals |-> <<>>, val |-> NilV]

BError(b, pos, msg) == [b EXCEPT !.errors = Append(@, [pos |-> pos, msg |-> msg])]

\* b.currentBlock.AddInstruction(instr)
Emit(b, instr) ==
    Strict(b,
    [b EXCEPT !.fn.bb[b.cur].instrs = Append(@, instr)])

\* b.currentBlock.AddSuccessor(succ)
Link(b, succ) ==
    Strict(b,
    [b EXCEPT !.fn.bb = AddSuccessor(@, b.cur, succ)])

\* the pointer of the block the next NewBasicBlockInFunc returns
NextBlock(b) == Len(b.fn.bb) + 1

NewBasicBlockInFunc(b, label) ==
    Strict(b,
    [b EXCEPT !.fn.bb = Append(@, [NewBasicBlock(label) EXCEPT
                                       !.index = Len(b.fn.blocks)]),
              !.fn.blocks = Append(@, Len(b.fn.bb) + 1)])

\* Function.NewValue; the value is left in val
NewValue(b, name, kind) ==
    Strict(b,
    [b EXCEPT !.val = Value(kind, b.fn.nextValueID, name),
              !.fn.nextValueID = @ + 1])

NewTemp(b) ==
    Strict(b,
    NewValue(b, "", "temp"))

CurTerminated(b) == IsTerminated(b.fn.bb[b.cur])

BuilderBinaryOps ==
    {"+", "-", "*", "/", "%", "==", "!=", "<", "<=", ">", ">=",
     "&", "|", "^", "<<", ">>"}

BuilderUnaryOps == {"-", "!", "~"}

RECURSIVE buildExpr(_, _, _)
RECURSIVE buildArgs(_, _, _, _, _)

\* the loop over expr.Args of buildCall, from argument i on
buildArgs(b, args, p, i, acc) ==
    Strict(b,
    IF i > Len(args) THEN [b |-> b, args |-> acc]
    ELSE With([b1 \in {buildExpr(b, args[i], p \o <<1 + i>>)} |->
            buildArgs(b1, args, p, i + 1, Append(acc, b1.val))]))

buildIdentifier(b, e, p) ==
    Strict(b,
    IF e.name \in DOMAIN b.namedValues THEN [b EXCEPT !.val = b.namedValues[e.name]]
    ELSE With([symbol \in {Lookup(b.analyzer.scopes, GlobalScope, e.name)} |->
            IF symbol # NoSym /\ SymOf(b.analyzer.scopes, symbol).kind = "function"
            THEN [b EXCEPT !.val = Value("var", -1, e.name)]
            ELSE IF symbol = NoSym
            THEN NewTemp(BError(b, p, "undefined variable"))
            ELSE IF symbol \in DOMAIN b.variables
            THEN [b EXCEPT !.val = b.variables[symbol]]
            ELSE NewTemp(BError(b, p, "variable not mapped to IR value"))]))

buildAssignmentTarget(b, e, value) ==
    Strict(b,
    IF e.target.e = "id" /\ e.target.name \in DOMAIN b.namedValues
    THEN With([target \in {b.namedValues[e.target.name]} |->
            [Emit(b, Copy(target, value)) EXCEPT !.val = target]])
    ELSE IF e.target.e = "id"
              /\ Lookup(b.analyzer.scopes, GlobalScope, e.target.name)
                    \in DOMAIN b.variables
    THEN With([target \in {b.variables[Lookup(b.analyzer.scopes, GlobalScope,
                                              e.target.name)]} |->
            [Emit(b, Copy(target, value)) EXCEPT !.val = target]])
    ELSE [b EXCEPT !.val = value])

buildExpr(b, e, p) ==
    Strict(b,
    CASE e.e = "bin" ->
            With([b1 \in {buildExpr(b, e.l, p \o <<1>>)} |->
            With([b2 \in {buildExpr(b1, e.r, p \o <<2>>)} |->
            With([b3 \in {NewTemp(b2)} |->
            With([result \in {b3.val} |->
               IF e.op \notin BuilderBinaryOps
               THEN [BError(b3, p, "unsupported binary operator") EXCEPT !.val = result]
               ELSE [Emit(b3, BinaryOp(e.op, result, b1.val, b2.val))
                        EXCEPT !.val = result]])])])])
      [] e.e = "un" ->
            With([b1 \in {buildExpr(b, e.x, p \o <<1>>)} |->
            With([b2 \in {NewTemp(b1)} |->
            With([result \in {b2.val} |->
               IF e.op \notin BuilderUnaryOps
               THEN [BError(b2, p, "unsupported unary operator") EXCEPT !.val = result]
               ELSE [Emit(b2, UnaryOp(e.op, result, b1.val)) EXCEPT !.val = result]])])])
      [] e.e = "lit" -> [b EXCEPT !.val = ConstV(e.t, e.v)]
      [] e.e = "id" -> buildIdentifier(b, e, p)
      [] e.e = "call" ->
            With([resultType \in {GetExprType(b.analyzer, p)} |->
            With([b1 \in {buildExpr(b, e.callee, p \o <<1>>)} |->
            With([function \in {b1.val} |->
            With([ra \in {buildArgs(b1, e.args, p, 1, <<>>)} |->
            With([b2 \in {IF ~Equals(resultType, Void) THEN NewTemp(ra.b)
                          ELSE [ra.b EXCEPT !.val = NilV]} |->
            With([result \in {b2.val} |->
               [Emit(b2, CallI(result, function, ra.args)) EXCEPT !.val = result]])])])])])])
      [] e.e = "assign" ->
            With([b1 \in {buildExpr(b, e.value, p \o <<2>>)} |->
               buildAssignmentTarget(b1, e, b1.val)])
      [] OTHER -> NewTemp(BError(b, p, "unsupported expression type")))

\* the loop over decl.Names of buildLocalVar, from name i on
RECURSIVE buildLocalVarNames(_, _, _, _)
buildLocalVarNames(b, decl, p, i) ==
    Strict(b,
    IF i > Len(decl.names) THEN b
    ELSE With([b1 \in {NewValue(b, decl.names[i], "var")} |->
         With([alloca \in {b1.val} |->
         With([b2 \in {[b1 EXCEPT !.fn.locals = Append(@, alloca),
                                  !.namedValues = Put(@, decl.names[i], alloca)]} |->
         With([b3 \in {IF decl.init # NoExpr
                       THEN With([bi \in {buildExpr(b2, decl.init, p \o <<1>>)} |->
                               Emit(bi, Copy(alloca, bi.val))])
                       ELSE b2} |->
            buildLocalVarNames(b3, decl, p, i + 1)])])])]))

buildLocalVar(b, decl, p) ==
    Strict(b,
    buildLocalVarNames(b, decl, p, 1))

buildReturn(b, stmt, p) ==
    Strict(b,
    IF stmt.value # NoExpr
    THEN With([b1 \in {buildExpr(b, stmt.value, p \o <<1>>)} |->
            Emit(b1, ReturnI(b1.val))])
    ELSE Emit(b, ReturnI(NilV)))

\* the case *ast.BreakStmt of buildStmt
buildBreak(b) ==
    Strict(b,
    IF b.breakTarget # 0 THEN Emit(b, Jump(b.breakTarget)) ELSE b)

\* the case *ast.ContinueStmt of buildStmt
buildContinue(b) ==
    Strict(b,
    IF b.continueTarget # 0 THEN Emit(b, Jump(b.continueTarget)) ELSE b)

\* "if the block is not terminated, jump to target": the tail of a branch
\* or of a loop body
JumpIfOpen(b, target) ==
    Strict(b,
    IF ~CurTerminated(b) THEN Link(Emit(b, Jump(target)), target) ELSE b)

RECURSIVE buildStmt(_, _, _)
RECURSIVE buildStmts(_, _, _, _)

buildStmts(b, stmts, p, i) ==
    Strict(b,
    IF i > Len(stmts) THEN b
    ELSE buildStmts(buildStmt(b, stmts[i], p \o <<i>>), stmts, p, i + 1))

buildIf(b, stmt, p) ==
    Strict(b,
    With([b0 \in {buildExpr(b, stmt.cond, p \o <<1>>)} |->
    With([cond \in {b0.val} |->
    With([thenBlock \in {NextBlock(b0)} |->
    With([b1 \in {NewBasicBlockInFunc(b0, "if.then")} |->
    With([endBlock \in {NextBlock(b1)} |->
    With([b2 \in {NewBasicBlockInFunc(b1, "if.end")} |->
    With([elseBlock \in {IF stmt.else # NoStmt THEN NextBlock(b2) ELSE endBlock} |->
    With([b3 \in {IF stmt.else # NoStmt THEN NewBasicBlockInFunc(b2, "if.else") ELSE b2} |->
    With([b4 \in {Link(Link(Emit(b3, Branch(cond, thenBlock, elseBlock)), thenBlock),
                       elseBlock)} |->
    With([b5 \in {JumpIfOpen(buildStmt([b4 EXCEPT !.cur = thenBlock], stmt.then, p \o <<2>>),
                             endBlock)} |->
    With([b6 \in {IF stmt.else # NoStmt
                  THEN JumpIfOpen(buildStmt([b5 EXCEPT !.cur = elseBlock],
                                            stmt.else, p \o <<3>>),
                                  endBlock)
                  ELSE b5} |->
       [b6 EXCEPT !.cur = endBlock]])])])])])])])])])])]))

\* a buildWhile that leaves its own targets in place when it returns
buildWhileKeepsTargets(b, stmt, p) ==
    Strict(b,
    With([condBlock \in {NextBlock(b)} |->
    With([b1 \in {NewBasicBlockInFunc(b, "while.cond")} |->
    With([bodyBlock \in {NextBlock(b1)} |->
    With([b2 \in {NewBasicBlockInFunc(b1, "while.body")} |->
    With([endBlock \in {NextBlock(b2)} |->
    With([b3 \in {NewBasicBlockInFunc(b2, "while.end")} |->
    With([b4 \in {[b3 EXCEPT !.breakTarget = endBlock, !.continueTarget = condBlock]} |->
    With([b5 \in {Link(Emit(b4, Jump(condBlock)), condBlock)} |->
    With([b6 \in {buildExpr([b5 EXCEPT !.cur = condBlock], stmt.cond, p \o <<1>>)} |->
    With([b7 \in {Link(Link(Emit(b6, Branch(b6.val, bodyBlock, endBlock)), bodyBlock),
                       endBlock)} |->
    With([b8 \in {JumpIfOpen(buildStmt([b7 EXCEPT !.cur = bodyBlock], stmt.body, p \o <<2>>),
                             condBlock)} |->
       [b8 EXCEPT !.cur = endBlock]])])])])])])])])])])]))

buildWhile(b, stmt, p) ==
    Strict(b,
    With([condBlock \in {NextBlock(b)} |->
    With([b1 \in {NewBasicBlockInFunc(b, "while.cond")} |->
    With([bodyBlock \in {NextBlock(b1)} |->
    With([b2 \in {NewBasicBlockInFunc(b1, "while.body")} |->
    With([endBlock \in {NextBlock(b2)} |->
    With([b3 \in {NewBasicBlockInFunc(b2, "while.end")} |->
    With([b4 \in {[b3 EXCEPT !.breakTarget = endBlock, !.continueTarget = condBlock]} |->
    With([b5 \in {Link(Emit(b4, Jump(condBlock)), condBlock)} |->
    With([b6 \in {buildExpr([b5 EXCEPT !.cur = condBlock], stmt.cond, p \o <<1>>)} |->
    With([b7 \in {Link(Link(Emit(b6, Branch(b6.val, bodyBlock, endBlock)), bodyBlock),
                       endBlock)} |->
    With([b8 \in {JumpIfOpen(buildStmt([b7 EXCEPT !.cur = bodyBlock], stmt.body, p \o <<2>>),
                             condBlock)} |->
       [b8 EXCEPT !.breakTarget = b.breakTarget,
                  !.continueTarget = b.continueTarget,
                  !.cur = endBlock]])])])])])])])])])])]))

buildFor(b, stmt, p) ==
    Strict(b,
    With([bi \in {IF stmt.init # NoStmt THEN buildStmt(b, stmt.init, p \o <<1>>) ELSE b} |->
    With([condBlock \in {NextBlock(bi)} |->
    With([b1 \in {NewBasicBlockInFunc(bi, "for.cond")} |->
    With([bodyBlock \in {NextBlock(b1)} |->
    With([b2 \in {NewBasicBlockInFunc(b1, "for.body")} |->
    With([postBlock \in {NextBlock(b2)} |->
    With([b3 \in {NewBasicBlockInFunc(b2, "for.post")} |->
    With([endBlock \in {NextBlock(b3)} |->
    With([b4 \in {NewBasicBlockInFunc(b3, "for.end")} |->
    With([b5 \in {[b4 EXCEPT !.breakTarget = endBlock, !.continueTarget = postBlock]} |->
    With([b6 \in {[Link(Emit(b5, Jump(condBlock)), condBlock) EXCEPT !.cur = condBlock]} |->
    With([b7 \in {IF stmt.cond # NoExpr
                  THEN With([bc \in {buildExpr(b6, stmt.cond, p \o <<2>>)} |->
                          Emit(bc, Branch(bc.val, bodyBlock, endBlock))])
                  ELSE Emit(b6, Jump(bodyBlock))} |->
    With([b8 \in {Link(Link(b7, bodyBlock), endBlock)} |->
    With([b9 \in {JumpIfOpen(buildStmt([b8 EXCEPT !.cur = bodyBlock], stmt.body, p \o <<4>>),
                             postBlock)} |->
    With([b10 \in {IF stmt.post # NoStmt
                   THEN buildStmt([b9 EXCEPT !.cur = postBlock], stmt.post, p \o <<3>>)
                   ELSE [b9 EXCEPT !.cur = postBlock]} |->
    With([b11 \in {Link(Emit(b10, Jump(condBlock)), condBlock)} |->
       [b11 EXCEPT !.breakTarget = bi.breakTarget,
                   !.continueTarget = bi.continueTarget,
                   !.cur = endBlock]])])])])])])])])])])])])])])])]))

buildStmt(b, s, p) ==
    Strict(b,
    CASE s.s = "expr" -> buildExpr(b, s.x, p \o <<1>>)
      [] s.s = "block" -> buildStmts(b, s.body, p, 1)
      [] s.s = "if" -> buildIf(b, s, p)
      [] s.s = "while" -> buildWhile(b, s, p)
      [] s.s = "for" -> buildFor(b, s, p)
      [] s.s = "return" -> buildReturn(b, s, p)
      [] s.s = "break" -> buildBreak(b)
      [] s.s = "continue" -> buildContinue(b)
      [] s.s = "var" -> buildLocalVar(b, s, p)
      [] OTHER -> b)

\* the parameter values of buildFunction
ParamValues(params) ==
    [i \in 1..Len(params) |-> Value("param", i - 1, params[i].name)]

RECURSIVE NameParams(_, _, _)
NameParams(named, params, i) ==
    Strict(named,
    IF i > Len(params) THEN named
    ELSE NameParams(Put(named, params[i].name, Value("param", i - 1, params[i].name)),
                    params, i + 1))

buildFunction(b, decl, p) ==
    Strict(b,
    With([symbol \in {Lookup(b.analyzer.scopes, GlobalScope, decl.name)} |->
       IF symbol = NoSym THEN BError(b, p, "function symbol not found")
       ELSE With([funcType \in {SymOf(b.analyzer.scopes, symbol).type} |->
            With([b1 \in {[b EXCEPT
                             !.fn = NewFunctionIR(decl.name, ParamValues(decl.params),
                                                  funcType.ret),
                             !.cur = EntryBlock,
                             !.namedValues = NameParams(EmptyMap, decl.params, 1)]} |->
            With([b2 \in {IF decl.body # NoStmt
                          THEN With([bs \in {buildStmt(b1, decl.body, p \o <<1>>)} |->
                                  IF Equals(funcType.ret, Void) /\ ~CurTerminated(bs)
                                  THEN Emit(bs, ReturnI(NilV))
                                  ELSE bs])
                          ELSE b1} |->
               [b2 EXCEPT !.functions = Append(@, b2.fn), !.fn = NoFn, !.cur = 0]])])])]))

RECURSIVE buildGlobalVarNames(_, _, _)
buildGlobalVarNames(b, names, i) ==
    Strict(b,
    IF i > Len(names) THEN b
    ELSE With([symbol \in {Lookup(b.analyzer.scopes, GlobalScope, names[i])} |->
             \* a module-level allocation: the tag keeps its pointer apart
             \* from a function's variable of the same id and name
         With([global \in {[Value("var", Len(b.globals), names[i]) EXCEPT !.t = "global"]} |->
            buildGlobalVarNames(
               IF symbol # NoSym
               THEN [b EXCEPT !.globals = Append(@, global),
                              !.variables = Put(@, symbol, global)]
               ELSE b,
               names, i + 1)])]))

buildGlobalVar(b, decl) ==
    Strict(b,
    buildGlobalVarNames(b, decl.names, 1))

buildDecl(b, decl, p) ==
    Strict(b,
    CASE decl.s = "func" -> buildFunction(b, decl, p)
      [] decl.s = "var" -> buildGlobalVar(b, decl)
      [] OTHER -> b)

RECURSIVE buildDecls(_, _, _)
buildDecls(b, decls, i) ==
    Strict(b,
    IF i > Len(decls) THEN b
    ELSE buildDecls(buildDecl(b, decls[i], <<i>>), decls, i + 1))

\* Builder.Build: the module is (functions, globals) of the result
Build(b, file) ==
    Strict(b,
    buildDecls(b, file, 1))

\* ------------------------------------------------------------------------
\* Constant folding (optimizer: ConstantFoldingPass)
\*
\* The constants map holds interface{} values; an entry is the pair of the
\* dynamic type ("int" for int64, "bool") and the payload.
\* ------------------------------------------------------------------------

ConstOf(v) == [t |-> v.t, c |-> v.c]

\* all instructions of the function, in fn.Blocks order
RECURSIVE InstrsFrom(_, _)
InstrsFrom(fn, i) ==
    IF i > Len(fn.blocks) THEN <<>>
    ELSE fn.bb[fn.blocks[i]].instrs \o InstrsFrom(fn, i + 1)

AllInstrs(fn) == InstrsFrom(fn, 1)

\* Go's integer division truncates toward zero
GoDiv(x, y) ==
    IF (x >= 0) = (y >= 0)
    THEN (IF x >= 0 THEN x ELSE -x) \div (IF y >= 0 THEN y ELSE -y)
    ELSE -((IF x >= 0 THEN x ELSE -x) \div (IF y >= 0 THEN y ELSE -y))

GoMod(x, y) == x - y * GoDiv(x, y)

RECURSIVE Pow2(_)
Pow2(n) == IF n <= 0 THEN 1 ELSE 2 * Pow2(n - 1)

\* two's-complement bitwise operators over the low BitWidth bits and the sign
BitWidth == 12

RECURSIVE Bitwise(_, _, _, _)
Bitwise(op, x, y, n) ==
    LET bit(u, v) == CASE op = "&" -> IF u = 1 /\ v = 1 THEN 1 ELSE 0
                       [] op = "|" -> IF u = 1 \/ v = 1 THEN 1 ELSE 0
                       [] OTHER -> IF u # v THEN 1 ELSE 0
    IN IF n = 0 THEN -bit(IF x < 0 THEN 1 ELSE 0, IF y < 0 THEN 1 ELSE 0)
       ELSE 2 * Bitwise(op, x \div 2, y \div 2, n - 1) + bit(x % 2, y % 2)

\* the first pass of Run: every Copy of a constant, the last one winning
RECURSIVE CollectConstants(_, _, _)
CollectConstants(instrs, i, constants) ==
    Strict(constants,
    IF i > Len(instrs) THEN constants
    ELSE CollectConstants(instrs, i + 1,
            IF instrs[i].op = "copy" /\ IsConstant(instrs[i].src)
            THEN Put(constants, instrs[i].dest, ConstOf(instrs[i].src))
            ELSE constants))

NoConst == [t |-> "", c |-> 0]

getConstantValue(v, constants) ==
    IF IsConstant(v) THEN ConstOf(v)
    ELSE IF v \in DOMAIN constants THEN constants[v]
    ELSE NoConst

createBoolCopy(dest, value) == Copy(dest, ConstV("bool", IF value THEN 1 ELSE 0))

\* a folder that takes every operation on two constants for the constant 0
foldToZero(op, constants) ==
    IF getConstantValue(op.l, constants) = NoConst
       \/ getConstantValue(op.r, constants) = NoConst
    THEN NoInstruction
    ELSE Copy(op.dest, ConstV("int", 0))

foldBinaryOpWithConstants(op, constants) ==
    With([leftConst \in {getConstantValue(op.l, constants)} |->
    With([rightConst \in {getConstantValue(op.r, constants)} |->
    With([leftVal \in {leftConst.c} |->
    With([rightVal \in {rightConst.c} |->
    LET int(result) == Copy(op.dest, ConstV("int", result))
    IN IF leftConst = NoConst \/ rightConst = NoConst THEN NoInstruction
       ELSE IF leftConst.t # "int" \/ rightConst.t # "int" THEN NoInstruction
       ELSE CASE op.bop = "+" -> int(leftVal + rightVal)
              [] op.bop = "-" -> int(leftVal - rightVal)
              [] op.bop = "*" -> int(leftVal * rightVal)
              [] op.bop = "/" -> IF rightVal = 0 THEN NoInstruction
                                 ELSE int(GoDiv(leftVal, rightVal))
              [] op.bop = "%" -> IF rightVal = 0 THEN NoInstruction
                                 ELSE int(GoMod(leftVal, rightVal))
              [] op.bop = "==" -> createBoolCopy(op.dest, leftVal = rightVal)
              [] op.bop = "!=" -> createBoolCopy(op.dest, leftVal # rightVal)
              [] op.bop = "<" -> createBoolCopy(op.dest, leftVal < rightVal)
              [] op.bop = "<=" -> createBoolCopy(op.dest, leftVal <= rightVal)
              [] op.bop = ">" -> createBoolCopy(op.dest, leftVal > rightVal)
              [] op.bop = ">=" -> createBoolCopy(op.dest, leftVal >= rightVal)
              [] op.bop \in {"&", "|", "^"} ->
                    int(Bitwise(op.bop, leftVal, rightVal, BitWidth))
              \* uint(rightVal) of a negative count is at least 2^63
              [] op.bop = "<<" -> IF rightVal < 0 \/ rightVal >= 64 THEN int(0)
                                  ELSE int(leftVal * Pow2(rightVal))
              [] op.bop = ">>" -> IF rightVal < 0 \/ rightVal >= 64
                                  THEN int(IF leftVal < 0 THEN -1 ELSE 0)
                                  ELSE int(leftVal \div Pow2(rightVal))
              [] OTHER -> NoInstruction])])])])

foldUnaryOpWithConstants(op, constants) ==
    With([operandConst \in {getConstantValue(op.x, constants)} |->
       IF operandConst = NoConst THEN NoInstruction
       ELSE IF operandConst.t = "int"
       THEN CASE op.uop = "-" -> Copy(op.dest, ConstV("int", -operandConst.c))
              [] op.uop = "~" -> Copy(op.dest, ConstV("int", -operandConst.c - 1))
              [] OTHER -> NoInstruction
       ELSE IF operandConst.t = "bool" /\ op.uop = "!"
       THEN createBoolCopy(op.dest, operandConst.c = 0)
       ELSE NoInstruction])

foldInstructionWithConstants(instr, constants) ==
    CASE instr.op = "binop" -> foldBinaryOpWithConstants(instr, constants)
      [] instr.op = "unop" -> foldUnaryOpWithConstants(instr, constants)
      [] OTHER -> NoInstruction

\* the second pass of Run over the instructions of one block, from i on
RECURSIVE FoldBlock(_, _, _)
FoldBlock(instrs, i, constants) ==
    Strict(<<instrs, constants>>,
    IF i > Len(instrs) THEN [instrs |-> instrs, constants |-> constants]
    ELSE With([folded \in {foldInstructionWithConstants(instrs[i], constants)} |->
            IF folded = NoInstruction THEN FoldBlock(instrs, i + 1, constants)
            ELSE FoldBlock([instrs EXCEPT ![i] = folded], i + 1,
                           IF folded.op = "copy" /\ IsConstant(folded.src)
                           THEN Put(constants, folded.dest, ConstOf(folded.src))
                           ELSE constants)]))

\* the second pass of Run over fn.Blocks, from block i on
RECURSIVE FoldBlocks(_, _, _)
FoldBlocks(fn, i, constants) ==
    Strict(<<fn, constants>>,
    IF i > Len(fn.blocks) THEN fn
    ELSE With([r \in {FoldBlock(fn.bb[fn.blocks[i]].instrs, 1, constants)} |->
            FoldBlocks([fn EXCEPT !.bb[fn.blocks[i]].instrs = r.instrs],
                       i + 1, r.constants)]))

\* ConstantFoldingPass.Run
ConstantFolding(fn) ==
    Strict(fn,
    FoldBlocks(fn, 1, CollectConstants(AllInstrs(fn), 1, EmptyMap)))

\* ------------------------------------------------------------------------
\* Dead code elimination (optimizer: DeadCodeEliminationPass)
\* ------------------------------------------------------------------------

\* a sweep that takes a Call for removable when its result is unused
isCriticalExceptCall(instr) == instr.op \in {"store", "return", "branch", "jump"}

isCritical(instr) == instr.op \in {"store", "call", "return", "branch", "jump"}

\* the index of the first instruction of instrs whose Result is v, or 0
RECURSIVE FirstDef(_, _, _)
FirstDef(instrs, v, i) ==
    IF i > Len(instrs) THEN 0
    ELSE IF Result(instrs[i]) = v THEN i
    ELSE FirstDef(instrs, v, i + 1)

RECURSIVE markValue(_, _, _)
RECURSIVE markValues(_, _, _, _)

\* markValue over the operands ops, from operand i on
markValues(ops, i, used, instrs) ==
    Strict(used,
    IF i > Len(ops) THEN used
    ELSE markValues(ops, i + 1, markValue(ops[i], used, instrs), instrs))

\* markValue: v is used, and so are the operands of the first instruction
\* that defines it; instrs is AllInstrs(fn)
markValue(v, used, instrs) ==
    Strict(used,
    IF v = NilV THEN used
    ELSE IF v \in used THEN used
    ELSE IF IsConstant(v) THEN used
    ELSE With([d \in {FirstDef(instrs, v, 1)} |->
            IF d = 0 THEN used \cup {v}
            ELSE markValues(Operands(instrs[d]), 1, used \cup {v}, instrs)]))

RECURSIVE MarkFrom(_, _, _)
MarkFrom(instrs, i, used) ==
    Strict(used,
    IF i > Len(instrs) THEN used
    ELSE MarkFrom(instrs, i + 1,
                  IF isCritical(instrs[i])
                  THEN markValues(Operands(instrs[i]), 1, used, instrs)
                  ELSE used))

markUsedValues(fn) == MarkFrom(AllInstrs(fn), 1, {})

\* the test of removeUnusedInstructions for one instruction
Kept(instr, used) ==
    isCritical(instr) \/ (Result(instr) # NilV /\ Result(instr) \in used)

RECURSIVE SweepBlocks(_, _, _, _)
SweepBlocks(fn, i, used, modified) ==
    Strict(fn,
    IF i > Len(fn.blocks) THEN [fn |-> fn, modified |-> modified]
    ELSE With([instrs \in {fn.bb[fn.blocks[i]].instrs} |->
         With([newInstructions \in {SelectSeq(instrs, LAMBDA instr : Kept(instr, used))} |->
            SweepBlocks([fn EXCEPT !.bb[fn.blocks[i]].instrs = newInstructions],
                        i + 1, used,
                        modified \/ Len(newInstructions) # Len(instrs))])]))

removeUnusedInstructions(fn, used) ==
    Strict(fn,
    SweepBlocks(fn, 1, used, FALSE))

\* the blocks the depth-first walk over Successors visits
RECURSIVE ReachableFrom(_, _)
ReachableFrom(fn, reachable) ==
    Strict(reachable,
    With([more \in {reachable \cup UNION {Range(fn.bb[blk].succs) : blk \in reachable}} |->
       IF more = reachable THEN reachable ELSE ReachableFrom(fn, more)]))

Reachable(fn) == ReachableFrom(fn, {EntryBlock})

RECURSIVE Reindex(_, _, _)
Reindex(bb, blocks, i) ==
    Strict(bb,
    IF i > Len(blocks) THEN bb
    ELSE Reindex([bb EXCEPT ![blocks[i]].index = i - 1], blocks, i + 1))

removeUnreachableBlocks(fn) ==
    Strict(fn,
    With([reachable \in {Reachable(fn)} |->
    With([newBlocks \in {SelectSeq(fn.blocks, LAMBDA blk : blk \in reachable)} |->
    With([modified \in {Len(newBlocks) # Len(fn.blocks)} |->
       [fn |-> IF modified
               THEN [fn EXCEPT !.blocks = newBlocks,
                               !.bb = Reindex(fn.bb, newBlocks, 1)]
               ELSE fn,
        modified |-> modified]])])]))

\* DeadCodeEliminationPass.Run: repeat while a sweep or a removal modified
RECURSIVE DeadCodeElimination(_)
DeadCodeElimination(fn) ==
    Strict(fn,
    With([r1 \in {removeUnusedInstructions(fn, markUsedValues(fn))} |->
    With([r2 \in {removeUnreachableBlocks(r1.fn)} |->
       IF r1.modified \/ r2.modified THEN DeadCodeElimination(r2.fn) ELSE r2.fn])]))

\* ------------------------------------------------------------------------
\* Optimizer
\* ------------------------------------------------------------------------

\* Optimizer.OptimizeFunction: each pass of NewOptimizer once, in order
OptimizeFunction(fn) ==
    Strict(fn,
    DeadCodeElimination(ConstantFolding(fn)))

\* Optimizer.Optimize
Optimize(functions) == [i \in 1..Len(functions) |-> OptimizeFunction(functions[i])]

\* ------------------------------------------------------------------------
\* Execution of a function's IR
\*
\* The repository has no interpreter; this is the reading of the IR that
\* ir's instruction comments give: a block runs its instructions in order,
\* a terminator transfers control, BinaryOp and UnaryOp compute what
\* constant folding computes for the same operands.  Outcomes: "ret" with a
\* value, "void", "trap" (division by zero), "undef" (a value read before
\* any definition ran), "stuck" (a block ends without terminator, or control
\* reaches a block that is not in fn.Blocks), "timeout" (Fuel block entries
\* used up), "call" (a Call, which this reading does not execute).
\* ------------------------------------------------------------------------

Fuel == 6

Outcome(k) == [k |-> k, t |-> "", c |-> 0]
RetOutcome(v) == [k |-> "ret", t |-> v.t, c |-> v.c]

\* the run-time value of operand v under env, or NoConst
ValueOf(v, env) ==
    IF IsConstant(v) THEN ConstOf(v)
    ELSE IF v \in DOMAIN env THEN env[v]
    ELSE NoConst

\* the instruction as constant folding sees it when every operand is known
EvalInstr(instr, env) ==
    LET known == [v \in {x \in Range(Operands(instr)) : ValueOf(x, env) # NoConst}
                     |-> ValueOf(v, env)]
    IN foldInstructionWithConstants(instr, known)

RECURSIVE Exec(_, _, _, _, _)
Exec(fn, blk, i, env, fuel) ==
    Strict(env,
    IF blk \notin Range(fn.blocks) THEN Outcome("stuck")
    ELSE IF i > Len(fn.bb[blk].instrs) THEN Outcome("stuck")
    ELSE LET instr == fn.bb[blk].instrs[i]
             goto(target) == IF fuel = 0 THEN Outcome("timeout")
                             ELSE Exec(fn, target, 1, env, fuel - 1)
             undef == \E x \in Range(Operands(instr)) : ValueOf(x, env) = NoConst
         IN CASE instr.op = "call" -> Outcome("call")
              [] instr.op = "store" -> Outcome("call")
              [] instr.op = "return" /\ instr.val = NilV -> Outcome("void")
              [] undef -> Outcome("undef")
              [] instr.op = "return" -> RetOutcome(ValueOf(instr.val, env))
              [] instr.op = "jump" -> goto(instr.target)
              [] instr.op = "branch" ->
                    IF ValueOf(instr.cond, env).t # "bool" THEN Outcome("stuck")
                    ELSE IF ValueOf(instr.cond, env).c = 1 THEN goto(instr.t)
                    ELSE goto(instr.f)
              [] instr.op = "copy" ->
                    Exec(fn, blk, i + 1, Put(env, instr.dest, ValueOf(instr.src, env)),
                         fuel)
              [] OTHER ->
                    LET folded == EvalInstr(instr, env)
                    IN IF folded = NoInstruction
                       THEN Outcome(IF instr.op = "binop" /\ instr.bop \in {"/", "%"}
                                       /\ ValueOf(instr.r, env).c = 0
                                    THEN "trap" ELSE "stuck")
                       ELSE Exec(fn, blk, i + 1,
                                 Put(env, folded.dest, ConstOf(folded.src)), fuel))

\* run fn with the integer arguments args bound to its parameters
Run(fn, args) ==
    Exec(fn, EntryBlock, 1,
         [v \in Range(fn.params) |->
             [t |-> "int", c |-> args[CHOOSE i \in 1..Len(fn.params) : fn.params[i] = v]]],
         Fuel)

\* ------------------------------------------------------------------------
\* Source files
\*
\* A source is the declaration list the parser builds from it and the
\* parser's diagnostics.  The files are drawn from bounded families, each
\* built from a pool of statements or declarations.
\* ------------------------------------------------------------------------

MaxStmts == 3
MaxBody == 2
MaxDecls == 3
MaxDepth == 3

RECURSIVE SeqsUpTo(_, _)
\* the sequences over S of length at most n
SeqsUpTo(S, n) ==
    IF n = 0 THEN {<<>>}
    ELSE With([shorter \in {SeqsUpTo(S, n - 1)} |->
            shorter \cup {Append(q, x) : q \in shorter, x \in S}])

\* func f(n int) int { body }
FuncF(body) == FuncDecl("f", <<Param("n", "int")>>, "int", Block(body))

\* func g() int { return 7; }
FuncG == FuncDecl("g", <<>>, "int", Block(<<Return(IntLit(7))>>))

\* func h() { }
FuncH == FuncDecl("h", <<>>, "", Block(<<>>))

\* straight-line statements over the parameter n and the local x
StraightLine ==
    {VarDecl(<<"x">>, "int", IntLit(5)),
     ExprStmt(Assign(Id("x"), Id("n"))),
     ExprStmt(Assign(Id("x"), Bin("+", Id("x"), IntLit(1)))),
     ExprStmt(Call(Id("g"), <<>>)),
     ExprStmt(Call(Id("h"), <<>>)),
     Return(Bin("+", Id("x"), IntLit(1))),
     Return(Id("n"))}

StraightLinePrograms ==
    {<<FuncG, FuncH, FuncF(body)>> : body \in SeqsUpTo(StraightLine, MaxStmts)}

\* the statements of an if branch or a loop body
Inner ==
    {ExprStmt(Assign(Id("n"), IntLit(2))),
     Return(Bin("/", IntLit(6), Id("n"))),
     Return(Id("n")),
     Break,
     Continue}

Positive == Bin(">", Id("n"), IntLit(0))
Small == Bin("<", Id("n"), IntLit(3))
Reset == ExprStmt(Assign(Id("n"), IntLit(0)))
Step == ExprStmt(Assign(Id("n"), Bin("+", Id("n"), IntLit(1))))

\* the if statements and loops around the body
Control(body) ==
    {If(Positive, Block(body), NoStmt),
     If(Positive, Block(body), Block(<<Return(IntLit(2))>>)),
     While(Small, Block(body)),
     For(NoStmt, NoExpr, NoStmt, Block(body)),
     For(NoStmt, NoExpr, Reset, Block(body)),
     For(NoStmt, Small, Step, Block(body))}

ControlPrograms ==
    {<<FuncF(<<k>> \o tail)>> :
        k \in UNION {Control(body) : body \in SeqsUpTo(Inner, MaxBody)},
        tail \in {<<>>, <<Return(IntLit(1))>>}}

\* func f(a bool, b bool) bool { return a op b; } and
\* func f(n int) int { if (n > 0 op n < 3) { return 1; } return 0; }
LogicalPrograms ==
    {<<FuncDecl("f", <<Param("a", "bool"), Param("b", "bool")>>, "bool",
                Block(<<Return(Logical(op, Id("a"), Id("b")))>>))>> :
        op \in {"&&", "||"}}
    \cup {<<FuncF(<<If(Logical(op, Positive, Small),
                       Block(<<Return(IntLit(1))>>), NoStmt),
                    Return(IntLit(0))>>)>> :
        op \in {"&&", "||"}}

\* top-level declarations: f calls g, k reads w, and g is also a variable
TopLevel ==
    {FuncDecl("f", <<>>, "int", Block(<<Return(Call(Id("g"), <<>>))>>)),
     FuncG,
     FuncDecl("k", <<>>, "int", Block(<<Return(Id("w"))>>)),
     VarDecl(<<"w">>, "int", IntLit(1)),
     VarDecl(<<"g">>, "int", IntLit(2))}

TopLevelPrograms == SeqsUpTo(TopLevel, MaxDecls) \ {<<>>}

\* declarations of x, y and n in the body block of f and in nested blocks
Scoped ==
    {VarDecl(<<"x">>, "int", IntLit(1)),
     VarDecl(<<"x">>, "int", IntLit(2)),
     VarDecl(<<"y">>, "int", IntLit(1)),
     VarDecl(<<"n">>, "int", IntLit(1)),
     Block(<<VarDecl(<<"x">>, "int", IntLit(3))>>),
     Block(<<VarDecl(<<"x">>, "int", IntLit(3)), VarDecl(<<"x">>, "int", IntLit(4))>>)}

ScopePrograms ==
    {<<FuncF(body \o <<Return(Id("n"))>>)>> : body \in SeqsUpTo(Scoped, MaxStmts)}

RECURSIVE Nest(_)
\* a break or a continue under at most d loops, switches, ifs and blocks
Nest(d) ==
    IF d = 0 THEN {Break, Continue}
    ELSE With([inner \in {Nest(d - 1)} |->
            inner
            \cup {While(Small, Block(<<s>>)) : s \in inner}
            \cup {For(NoStmt, Small, Step, Block(<<s>>)) : s \in inner}
            \cup {Switch(Id("n"), <<Case(<<IntLit(1)>>, <<s>>)>>) : s \in inner}
            \cup {If(Positive, Block(<<s>>), NoStmt) : s \in inner}
            \cup {Block(<<s>>) : s \in inner}])

NestingPrograms == {<<FuncF(<<s, Return(Id("n"))>>)>> : s \in Nest(MaxDepth)}

\* func f(n int) int { if (c) { return 1; } return 2; } with a constant c,
\* with and without an else branch
ConstantBranchPrograms ==
    {<<FuncDecl("f", <<>>, "int",
                Block(<<If(BoolLit(c), Block(<<Return(IntLit(1))>>), else),
                        Return(IntLit(2))>>))>> :
        c \in BOOLEAN, else \in {NoStmt, Block(<<Return(IntLit(3))>>)}}

\* func f(n int) int { var x int = a op b; return x; },
\* func f(n int) int { return a op b; } and
\* func f(n int) int { var x int = b; return a op x; } over constants and n
Operand == {IntLit(6), IntLit(0), Id("n")}

ArithmeticPrograms ==
    {<<FuncF(<<VarDecl(<<"x">>, "int", Bin(op, a, b)), Return(Id("x"))>>)>> :
        op \in {"/", "%", "*"}, a \in Operand, b \in Operand}
    \cup {<<FuncF(<<Return(Bin(op, a, b))>>)>> :
            op \in {"/", "%", "*"}, a \in Operand, b \in Operand}
    \cup {<<FuncF(<<VarDecl(<<"x">>, "int", b), Return(Bin(op, a, Id("x")))>>)>> :
            op \in {"/", "%", "*"}, a \in Operand, b \in {IntLit(6), IntLit(0)}}

\* func f(n int) int { var x int = a; x = b + 1; return x; }: the variable x
\* is defined twice
ReassignedPrograms ==
    {<<FuncF(<<VarDecl(<<"x">>, "int", a),
               ExprStmt(Assign(Id("x"), Bin("+", b, IntLit(1)))),
               Return(Id("x"))>>)>> :
        a \in {IntLit(5), Id("n")}, b \in {Id("n"), Id("x")}}

\* declarations of x at the top of the body and of x and n in inner blocks
Shadowing ==
    {VarDecl(<<"x">>, "int", IntLit(1)),
     Block(<<VarDecl(<<"x">>, "int", IntLit(3))>>),
     Block(<<VarDecl(<<"n">>, "int", IntLit(3))>>)}

\* func f(n int) int { ...; return x; } and func f(n int) int { ...; return n; }
ShadowPrograms ==
    {<<FuncF(body \o <<Return(Id(name))>>)>> :
        body \in SeqsUpTo(Shadowing, MaxStmts), name \in {"x", "n"}}

\* func h() { } func g() int { return 7; }
\* func f(n int) int { var x = call; return n; } and the same with the call
\* as the value of an assignment to n, as the operand of - and as a statement
CallPrograms ==
    {<<FuncH, FuncG, FuncF(<<s, Return(Id("n"))>>)>> :
        s \in UNION {{VarDecl(<<"x">>, "", call),
                      ExprStmt(Assign(Id("n"), call)),
                      ExprStmt(Un("-", call)),
                      ExprStmt(call)} :
                     call \in {Call(Id("h"), <<>>), Call(Id("g"), <<>>)}}}

\* a loop whose body is a loop followed by a break or a continue
Loops(body) == {While(Small, Block(body)), For(NoStmt, Small, Step, Block(body))}

LoopPrograms ==
    {<<FuncF(<<outer, Return(Id("n"))>>)>> :
        outer \in UNION {Loops(<<inner, after>>) :
                            inner \in UNION {Loops(<<s>>) : s \in {Reset, Break, Continue}},
                            after \in {Break, Continue}}}

Programs ==
    StraightLinePrograms \cup ControlPrograms \cup LogicalPrograms
    \cup TopLevelPrograms \cup ScopePrograms \cup NestingPrograms
    \cup ConstantBranchPrograms \cup ArithmeticPrograms
    \cup ReassignedPrograms \cup ShadowPrograms \cup CallPrograms
    \cup LoopPrograms

SyntaxErrors == <<[pos |-> <<1>>, msg |-> "unexpected token"]>>

Sources ==
    {[decls |-> f, errors |-> <<>>] : f \in Programs}
    \cup {[decls |-> <<>>, errors |-> SyntaxErrors]}

\* ------------------------------------------------------------------------
\* The driver (cmd/compiler/main.go)
\*
\* pc is the stage main is about to run, "done" after the summary, "exit"
\* after os.Exit(1).  diagnostics lists, in the order they ran, the stages
\* and the diagnostics each returned.  unoptimized is the module as main
\* prints it under "Unoptimized IR", before the optimizer rewrites it in
\* place.
\* ------------------------------------------------------------------------

VARIABLES pc, source, file, analyzer, module, unoptimized, diagnostics, exitCode

\* The packages that are verified on their own have their state beside the
\* driver's: a lexer and the tokens its NextToken has returned, a parser and
\* the expression it has built, a scope chain and what its methods have
\* returned, types and what their predicates have answered.  Each is Idle in
\* the behaviours of the others.
VARIABLES lexer, tokens, parser, tree, parsing, symtab, returned, operands, verdict

driverVars == <<pc, source, file, analyzer, module, unoptimized, diagnostics, exitCode>>

lexerVars == <<lexer, tokens>>

parserVars == <<parser, tree, parsing>>

symtabVars == <<symtab, returned>>

typeVars == <<operands, verdict>>

vars == <<driverVars, lexerVars, parserVars, symtabVars, typeVars>>

Idle == "idle"

DriverIdle ==
    /\ pc = Idle /\ source = Idle /\ file = Idle /\ analyzer = Idle
    /\ module = Idle /\ unoptimized = Idle /\ diagnostics = Idle /\ exitCode = Idle

LexerIdle == lexer = Idle /\ tokens = Idle

ParserIdle == parser = Idle /\ tree = Idle /\ parsing = Idle

SymtabIdle == symtab = Idle /\ returned = Idle

TypesIdle == operands = Idle /\ verdict = Idle

Stages == <<"parse", "semantic", "build", "verify", "optimize", "verify2">>

NoModule == [functions |-> <<>>, globals |-> <<>>]

Init ==
    /\ pc = "parse"
    /\ source \in Sources
    /\ file = <<>>
    /\ analyzer = New
    /\ module = NoModule
    /\ unoptimized = NoModule
    /\ diagnostics = <<>>
    /\ exitCode = -1
    /\ LexerIdle /\ ParserIdle /\ SymtabIdle /\ TypesIdle

\* a driver that goes on to the next stage whatever the stage returned
ProceedAlways(errors, next) == next

\* "if len(errors) > 0 { ...; os.Exit(1) }" after a stage
Proceed(errors, next) == IF Len(errors) > 0 THEN "exit" ELSE next

\* a stage has run and returned errors; control goes to next or exits
Finish(stage, errors, next) ==
    /\ diagnostics' = Append(diagnostics, [stage |-> stage, errors |-> errors])
    /\ pc' = Proceed(errors, next)
    /\ exitCode' = IF Proceed(errors, next) = "exit" THEN 1
                   ELSE IF next = "done" THEN 0 ELSE exitCode
    /\ UNCHANGED <<lexerVars, parserVars, symtabVars, typeVars>>

ParseFile ==
    /\ pc = "parse"
    /\ file' = source.decls
    /\ Finish("parse", source.errors, "semantic")
    /\ UNCHANGED <<source, analyzer, module, unoptimized>>

AnalyzeStage ==
    /\ pc = "semantic"
    /\ analyzer' = Analyze(New, file)
    /\ Finish("semantic", analyzer'.errors, "build")
    /\ UNCHANGED <<source, file, module, unoptimized>>

BuildStage ==
    /\ pc = "build"
    /\ \E b \in {Build(NewBuilder(analyzer), file)} :
          /\ module' = [functions |-> b.functions, globals |-> b.globals]
          /\ Finish("build", b.errors, "verify")
    /\ UNCHANGED <<source, file, analyzer, unoptimized>>

VerifyStage ==
    /\ pc = "verify"
    /\ Finish("verify", Verify(module.functions), "optimize")
    /\ unoptimized' = IF Verify(module.functions) = <<>> THEN module ELSE unoptimized
    /\ UNCHANGED <<source, file, analyzer, module>>

\* the optimizer calls a method of a nil *Value: ConstantFoldingPass.Run
\* calls copy.Value.IsConstant() on every Copy, getConstantValue calls
\* v.IsConstant() on the operands of every BinaryOp and UnaryOp
NilDereference(fn) ==
    \E instr \in Range(AllInstrs(fn)) :
        \/ instr.op = "copy" /\ instr.src = NilV
        \/ instr.op = "binop" /\ NilV \in {instr.l, instr.r}
        \/ instr.op = "unop" /\ instr.x = NilV

\* the optimizer returns, or a nil pointer dereference ends the process with
\* the exit code 2 of a Go panic
OptimizeStage ==
    /\ pc = "optimize"
    /\ IF \E i \in 1..Len(module.functions) : NilDereference(module.functions[i])
       THEN /\ pc' = "panic"
            /\ exitCode' = 2
            /\ UNCHANGED <<module, diagnostics>>
            /\ UNCHANGED <<lexerVars, parserVars, symtabVars, typeVars>>
       ELSE /\ module' = [module EXCEPT !.functions = Optimize(@)]
            /\ Finish("optimize", <<>>, "verify2")
    /\ UNCHANGED <<source, file, analyzer, unoptimized>>

VerifyOptimizedStage ==
    /\ pc = "verify2"
    /\ Finish("verify2", Verify(module.functions), "done")
    /\ UNCHANGED <<source, file, analyzer, module, unoptimized>>

Next ==
    \/ ParseFile
    \/ AnalyzeStage
    \/ BuildStage
    \/ VerifyStage
    \/ OptimizeStage
    \/ VerifyOptimizedStage

Spec == Init /\ [][Next]_vars

\* the stage has run
Ran(stage) == \E i \in 1..Len(diagnostics) : diagnostics[i].stage = stage

\* the diagnostics the stage returned
DiagnosticsOf(stage) ==
    diagnostics[CHOOSE i \in 1..Len(diagnostics) : diagnostics[i].stage = stage].errors

\* ------------------------------------------------------------------------
\* Return values before and after optimization
\* ------------------------------------------------------------------------

MaxArg == 2

\* the assignments of parameter values the functions are run with
ArgsOf(fn) == [1..Len(fn.params) -> -1..MaxArg]

\* no externally visible side effect beyond Return
NoSideEffects(fn) == \A instr \in Range(AllInstrs(fn)) : instr.op \notin {"store", "call"}

\* C1: once the optimizer has run, every function without side effects
\* returns, for every assignment of parameter values, the value it returned
\* before optimization
OptimizePreservesReturnValue ==
    Ran("optimize") =>
        \A i \in 1..Len(module.functions) :
            NoSideEffects(unoptimized.functions[i]) =>
                \A args \in ArgsOf(unoptimized.functions[i]) :
                    LET before == Run(unoptimized.functions[i], args)
                    IN before.k = "ret" => Run(module.functions[i], args) = before

\* ------------------------------------------------------------------------
\* The verifier on built modules
\* ------------------------------------------------------------------------

\* C2: a module built from a file that passed semantic analysis without a
\* diagnostic has no verification failure
BuiltModuleVerifies ==
    (Ran("build") /\ ~Ran("optimize")) => Verify(module.functions) = <<>>

\* ------------------------------------------------------------------------
\* The order of the stages
\* ------------------------------------------------------------------------

\* C3: the stages that have run are the first stages of the fixed order, in
\* that order, every stage before the last one returned no diagnostic, and
\* main has exited once a stage returned one
StagesInOrder ==
    /\ Len(diagnostics) <= Len(Stages)
    /\ \A i \in 1..Len(diagnostics) :
          /\ diagnostics[i].stage = Stages[i]
          /\ i < Len(diagnostics) => diagnostics[i].errors = <<>>
    /\ (diagnostics # <<>> /\ diagnostics[Len(diagnostics)].errors # <<>>) => pc = "exit"

\* four stages ran in order and the verifier's diagnostics stopped main
StoppedAfterVerify ==
    /\ pc = "exit"
    /\ Len(diagnostics) = 4
    /\ diagnostics[4].stage = "verify"
    /\ diagnostics[4].errors # <<>>

\* ------------------------------------------------------------------------
\* Dead code elimination: blocks and critical instructions
\* ------------------------------------------------------------------------

\* the blocks on a path from the entry block along terminator targets
RECURSIVE TargetReachableFrom(_, _)
TargetReachableFrom(fn, seen) ==
    LET more == seen \cup UNION {Targets(Terminator(fn.bb[blk])) : blk \in seen}
    IN IF more = seen THEN seen ELSE TargetReachableFrom(fn, more)

TargetReachable(fn) == TargetReachableFrom(fn, {EntryBlock})

\* the blocks of before that after no longer lists
Deleted(before, after) == Range(before.blocks) \ Range(after.blocks)

\* C4: the optimizer deletes only blocks that no path of terminator targets
\* reaches from the entry block, and no terminator of a remaining block
\* targets a deleted block
DeletesOnlyUnreachableBlocks ==
    Ran("optimize") =>
        \A i \in 1..Len(module.functions) :
            LET before == unoptimized.functions[i]
                after == module.functions[i]
            IN /\ Deleted(before, after) \cap TargetReachable(before) = {}
               /\ \A blk \in Range(after.blocks) :
                     Targets(Terminator(after.bb[blk])) \cap Deleted(before, after) = {}

\* the Store, Call, Return, Branch and Jump instructions of a block, in order
CriticalOf(instrs) ==
    SelectSeq(instrs, LAMBDA instr :
                         instr.op \in {"store", "call", "return", "branch", "jump"})

\* C5: every block that survives the optimizer holds the critical
\* instructions it held before, in the same order
CriticalInstructionsKept ==
    Ran("optimize") =>
        \A i \in 1..Len(module.functions) :
            \A blk \in Range(module.functions[i].blocks) :
                CriticalOf(module.functions[i].bb[blk].instrs)
                    = CriticalOf(unoptimized.functions[i].bb[blk].instrs)

\* the values the instructions read
UsesOf(instrs) == UNION {Range(Operands(instrs[k])) : k \in 1..Len(instrs)}

\* the sweep dropped an instruction of a block and kept, in that block, a
\* Call whose result no instruction reads
SweptAroundUnusedCall ==
    /\ Ran("optimize")
    /\ \E i \in 1..Len(module.functions) :
          \E blk \in Range(module.functions[i].blocks) :
             LET before == unoptimized.functions[i].bb[blk].instrs
                 after == module.functions[i].bb[blk].instrs
             IN /\ Len(after) < Len(before)
                /\ \E k \in 1..Len(after) :
                      /\ after[k].op = "call"
                      /\ after[k].dest # NilV
                      /\ after[k].dest \notin UsesOf(AllInstrs(unoptimized.functions[i]))

\* ------------------------------------------------------------------------
\* Idempotence of the optimizer
\* ------------------------------------------------------------------------

\* the value without its id
EraseId(v) == [v EXCEPT !.id = 0]

\* the instruction with the ids of its values erased
EraseIds(instr) ==
    CASE instr.op = "binop" ->
            [instr EXCEPT !.dest = EraseId(@), !.l = EraseId(@), !.r = EraseId(@)]
      [] instr.op = "unop" -> [instr EXCEPT !.dest = EraseId(@), !.x = EraseId(@)]
      [] instr.op = "copy" -> [instr EXCEPT !.dest = EraseId(@), !.src = EraseId(@)]
      [] instr.op = "call" ->
            [instr EXCEPT !.dest = EraseId(@), !.fn = EraseId(@),
                          !.args = [k \in 1..Len(@) |-> EraseId(@[k])]]
      [] instr.op = "return" -> [instr EXCEPT !.val = EraseId(@)]
      [] instr.op = "branch" -> [instr EXCEPT !.cond = EraseId(@)]
      [] OTHER -> instr

\* the same block list and, up to value ids, the same instruction lists
SameCode(f1, f2) ==
    /\ f1.blocks = f2.blocks
    /\ \A blk \in Range(f1.blocks) :
          /\ Len(f1.bb[blk].instrs) = Len(f2.bb[blk].instrs)
          /\ \A k \in 1..Len(f1.bb[blk].instrs) :
                EraseIds(f1.bb[blk].instrs[k]) = EraseIds(f2.bb[blk].instrs[k])

\* C6: optimizing an optimized function changes neither its block list nor
\* the instruction list of any block
OptimizerIdempotent ==
    Ran("optimize") =>
        \A i \in 1..Len(module.functions) :
            SameCode(OptimizeFunction(module.functions[i]), module.functions[i])

\* ------------------------------------------------------------------------
\* Logical expressions in the IR
\* ------------------------------------------------------------------------

RECURSIVE LogicalIn(_)
\* the logical expressions of the statement s
LogicalIn(s) ==
    CASE s.s = "func" -> LogicalIn(s.body)
      [] s.s = "block" -> UNION {LogicalIn(s.body[k]) : k \in 1..Len(s.body)}
      [] s.s = "if" ->
            (IF s.cond.e = "logical" THEN {s.cond} ELSE {})
            \cup LogicalIn(s.then) \cup LogicalIn(s.else)
      [] s.s = "return" -> IF s.value.e = "logical" THEN {s.value} ELSE {}
      [] OTHER -> {}

\* v is the value of the operand e computed in block blk
ComputedIn(e, v, blk) ==
    CASE e.e = "id" -> v.name = e.name
      [] e.e = "bin" ->
            \E k \in 1..Len(blk.instrs) :
                /\ blk.instrs[k].op = "binop"
                /\ blk.instrs[k].bop = e.op
                /\ blk.instrs[k].dest = v
      [] OTHER -> FALSE

\* the instructions of the operand e are in block blk
PlacedIn(e, blk) ==
    CASE e.e = "id" -> TRUE
      [] e.e = "bin" ->
            \E k \in 1..Len(blk.instrs) :
                blk.instrs[k].op = "binop" /\ blk.instrs[k].bop = e.op
      [] OTHER -> FALSE

\* some block of fn branches on the left operand of e, and the right operand
\* is computed in the block the branch enters when the left operand does not
\* determine the result
ShortCircuit(fn, e) ==
    \E blk \in Range(fn.blocks) :
        LET br == Terminator(fn.bb[blk])
        IN /\ br.op = "branch"
           /\ ComputedIn(e.l, br.cond, fn.bb[blk])
           /\ PlacedIn(e.r, fn.bb[IF e.op = "&&" THEN br.t ELSE br.f])
           /\ e.r.e = "bin" => ~PlacedIn(e.r, fn.bb[blk])

\* C7: in a built module, every logical expression of a function is
\* realized as a branch on its left operand around its right operand
LogicalIsControlFlow ==
    (Ran("build") /\ ~Ran("optimize")) =>
        \A d \in 1..Len(file) :
            file[d].s = "func" =>
                \A e \in LogicalIn(file[d]) :
                    \E i \in 1..Len(module.functions) :
                        /\ module.functions[i].name = file[d].name
                        /\ ShortCircuit(module.functions[i], e)

\* ------------------------------------------------------------------------
\* Forward references
\* ------------------------------------------------------------------------

\* the names the declaration d declares
NamesOf(d) == IF d.s = "func" THEN {d.name} ELSE Range(d.names)

\* the top-level names of the file are pairwise distinct
DistinctNames(decls) ==
    \A i, j \in 1..Len(decls) :
        i # j => NamesOf(decls[i]) \cap NamesOf(decls[j]) = {}

\* d is "func name() int { return callee(); }" or
\* "func name() int { return global; }"
ReturnsReference(d) ==
    /\ d.s = "func"
    /\ d.params = <<>>
    /\ d.ret = "int"
    /\ Len(d.body.body) = 1
    /\ d.body.body[1].s = "return"
    /\ \/ d.body.body[1].value.e = "id"
       \/ /\ d.body.body[1].value.e = "call"
          /\ d.body.body[1].value.callee.e = "id"
          /\ d.body.body[1].value.args = <<>>

\* the declaration j declares what the reference of declaration d names: a
\* function without parameters that returns int, or an int variable
Declares(decls, j, d) ==
    LET ref == d.body.body[1].value
    IN IF ref.e = "call"
       THEN /\ decls[j].s = "func"
            /\ decls[j].name = ref.callee.name
            /\ decls[j].params = <<>>
            /\ decls[j].ret = "int"
       ELSE /\ decls[j].s = "var"
            /\ ref.name \in Range(decls[j].names)
            /\ decls[j].type = "int"

\* the file declares distinct names, every function body is a return of a
\* reference or of a literal, every reference names a declaration of the
\* file, and some reference names a later one
RefersForward(decls) ==
    /\ DistinctNames(decls)
    /\ \A i \in 1..Len(decls) :
          \/ decls[i].s = "var" /\ decls[i].init.e = "lit"
          \/ decls[i] = FuncG
          \/ ReturnsReference(decls[i])
                /\ \E j \in 1..Len(decls) : Declares(decls, j, decls[i])
    /\ \E i \in 1..Len(decls) :
          ReturnsReference(decls[i])
             /\ \E j \in (i + 1)..Len(decls) : Declares(decls, j, decls[i])

\* C8: a file whose function bodies refer to functions and globals declared
\* later is analysed without a diagnostic, and every reference has type int
ForwardReferencesResolve ==
    (Ran("semantic") /\ RefersForward(file)) =>
        /\ DiagnosticsOf("semantic") = <<>>
        /\ \A i \in 1..Len(file) :
              ReturnsReference(file[i]) =>
                  GetExprType(analyzer, <<i, 1, 1, 1>>) = IntT

\* ------------------------------------------------------------------------
\* Duplicate declarations
\* ------------------------------------------------------------------------

\* the names the statement s declares in the scope it stands in
DeclaredBy(s) == IF s.s \in {"var", "func"} THEN NamesOf(s) ELSE {}

\* two statements of the list declare the same name
Redeclares(stmts) ==
    \E i, j \in 1..Len(stmts) :
        i # j /\ DeclaredBy(stmts[i]) \cap DeclaredBy(stmts[j]) # {}

RECURSIVE RedeclaresWithin(_)
\* a block in the statement s declares a name twice
RedeclaresWithin(s) ==
    CASE s.s = "func" -> RedeclaresWithin(s.body)
      [] s.s = "block" ->
            Redeclares(s.body) \/ \E k \in 1..Len(s.body) : RedeclaresWithin(s.body[k])
      [] s.s = "if" -> RedeclaresWithin(s.then) \/ RedeclaresWithin(s.else)
      [] s.s \in {"while", "for"} -> RedeclaresWithin(s.body)
      [] s.s = "switch" ->
            \E j \in 1..Len(s.cases) :
                \E k \in 1..Len(s.cases[j].body) : RedeclaresWithin(s.cases[j].body[k])
      [] OTHER -> FALSE

\* the file declares a name twice in one scope, at top level or in a block
DuplicateInScope(decls) ==
    Redeclares(decls) \/ \E d \in 1..Len(decls) : RedeclaresWithin(decls[d])

\* C9: semantic analysis reports a duplicate declaration exactly for the
\* files that declare a name twice in one scope, not for shadowing
DuplicatesReported ==
    Ran("semantic") =>
        (DuplicateInScope(file)
            <=> \E k \in 1..Len(DiagnosticsOf("semantic")) :
                    DiagnosticsOf("semantic")[k].msg = "already declared")

\* ------------------------------------------------------------------------
\* break and continue
\* ------------------------------------------------------------------------

RECURSIVE Misplaced(_, _, _, _)
\* the diagnostics due for the break and continue statements of s, which
\* stands at position p, inside a loop iff loop and inside a switch or a
\* loop iff exit
Misplaced(s, p, loop, exit) ==
    CASE s.s = "func" -> Misplaced(s.body, p \o <<1>>, FALSE, FALSE)
      [] s.s = "block" ->
            UNION {Misplaced(s.body[k], p \o <<k>>, loop, exit) : k \in 1..Len(s.body)}
      [] s.s = "if" ->
            Misplaced(s.then, p \o <<2>>, loop, exit)
            \cup Misplaced(s.else, p \o <<3>>, loop, exit)
      [] s.s = "while" -> Misplaced(s.body, p \o <<2>>, TRUE, TRUE)
      [] s.s = "for" -> Misplaced(s.body, p \o <<4>>, TRUE, TRUE)
      [] s.s = "switch" ->
            UNION {UNION {Misplaced(s.cases[j].body[k], p \o <<1 + j, 2, k>>,
                                    loop, TRUE) : k \in 1..Len(s.cases[j].body)} :
                      j \in 1..Len(s.cases)}
      [] s.s = "break" ->
            IF exit THEN {} ELSE {[pos |-> p, msg |-> "break outside loop or switch"]}
      [] s.s = "continue" ->
            IF loop THEN {} ELSE {[pos |-> p, msg |-> "continue outside loop"]}
      [] OTHER -> {}

\* C10: the break and continue diagnostics of semantic analysis are those
\* of the break statements outside every loop and switch and of the continue
\* statements outside every loop
JumpsChecked ==
    Ran("semantic") =>
        {e \in Range(DiagnosticsOf("semantic")) :
            e.msg \in {"break outside loop or switch", "continue outside loop"}}
        = UNION {Misplaced(file[d], <<d>>, FALSE, FALSE) : d \in 1..Len(file)}

\* semantic analysis ran on a function whose first statement is a switch,
\* inside no loop, whose first clause starts with a continue, and reported
\* "continue outside loop" at that continue
ContinueInSwitchRejected ==
    /\ Ran("semantic")
    /\ file # <<>>
    /\ file[1].s = "func"
    /\ Len(file[1].body.body) > 0
    /\ file[1].body.body[1].s = "switch"
    /\ file[1].body.body[1].cases[1].body[1].s = "continue"
    /\ [pos |-> <<1, 1, 1, 2, 2, 1>>, msg |-> "continue outside loop"]
          \in Range(DiagnosticsOf("semantic"))

\* ------------------------------------------------------------------------
\* C11: undefined names
\* ------------------------------------------------------------------------

RECURSIVE UnboundExpr(_, _, _)
\* the identifiers of expression e, at position p, whose name is not in bound
UnboundExpr(e, p, bound) ==
    CASE e.e = "id" -> IF e.name \in bound THEN {} ELSE {[pos |-> p, name |-> e.name]}
      [] e.e \in {"bin", "logical"} ->
            UnboundExpr(e.l, p \o <<1>>, bound) \cup UnboundExpr(e.r, p \o <<2>>, bound)
      [] e.e \in {"un", "group"} -> UnboundExpr(e.x, p \o <<1>>, bound)
      [] e.e = "call" ->
            UnboundExpr(e.callee, p \o <<1>>, bound)
            \cup UNION {UnboundExpr(e.args[i], p \o <<1 + i>>, bound) :
                           i \in 1..Len(e.args)}
      [] e.e = "assign" ->
            UnboundExpr(e.target, p \o <<1>>, bound)
            \cup UnboundExpr(e.value, p \o <<2>>, bound)
      [] OTHER -> {}

RECURSIVE UnboundStmt(_, _, _)
RECURSIVE UnboundStmts(_, _, _, _)
\* the unbound identifiers of the statements stmts[i..], where a declaration
\* binds its names for the statements after it
UnboundStmts(stmts, p, i, bound) ==
    IF i > Len(stmts) THEN {}
    ELSE UnboundStmt(stmts[i], p \o <<i>>, bound)
         \cup UnboundStmts(stmts, p, i + 1, bound \cup DeclaredBy(stmts[i]))

RECURSIVE UnboundCases(_, _, _, _)
\* the clauses of a switch share the switch's scope
UnboundCases(cases, p, j, bound) ==
    IF j > Len(cases) THEN {}
    ELSE UNION {UnboundExpr(cases[j].values[i], p \o <<1 + j, 1, i>>, bound) :
                   i \in 1..Len(cases[j].values)}
         \cup UnboundStmts(cases[j].body, p \o <<1 + j, 2>>, 1, bound)
         \cup UnboundCases(cases, p, j + 1,
                           bound \cup UNION {DeclaredBy(cases[j].body[k]) :
                                                k \in 1..Len(cases[j].body)})

UnboundStmt(s, p, bound) ==
    CASE s.s = "expr" -> UnboundExpr(s.x, p \o <<1>>, bound)
      [] s.s = "block" -> UnboundStmts(s.body, p, 1, bound)
      [] s.s = "if" ->
            UnboundExpr(s.cond, p \o <<1>>, bound)
            \cup UnboundStmt(s.then, p \o <<2>>, bound)
            \cup UnboundStmt(s.else, p \o <<3>>, bound)
      [] s.s = "while" ->
            UnboundExpr(s.cond, p \o <<1>>, bound)
            \cup UnboundStmt(s.body, p \o <<2>>, bound)
      [] s.s = "for" ->
            UnboundStmt(s.init, p \o <<1>>, bound)
            \cup UnboundExpr(s.cond, p \o <<2>>, bound \cup DeclaredBy(s.init))
            \cup UnboundStmt(s.post, p \o <<3>>, bound \cup DeclaredBy(s.init))
            \cup UnboundStmt(s.body, p \o <<4>>, bound \cup DeclaredBy(s.init))
      [] s.s = "return" -> UnboundExpr(s.value, p \o <<1>>, bound)
      [] s.s = "switch" ->
            UnboundExpr(s.value, p \o <<1>>, bound)
            \cup UnboundCases(s.cases, p, 1, bound)
      [] s.s = "var" -> UnboundExpr(s.init, p \o <<1>>, bound)
      [] OTHER -> {}

\* the identifiers in the function bodies of decls that no enclosing scope
\* binds: not a local declared before them, a parameter or a top-level name
UnboundNames(decls) ==
    UNION {UnboundStmt(decls[d].body, <<d, 1>>,
                       {decls[d].params[i].name : i \in 1..Len(decls[d].params)}
                       \cup UNION {DeclaredBy(decls[j]) : j \in 1..Len(decls)}) :
              d \in {j \in 1..Len(decls) : decls[j].s = "func"}}

RuneError == "U+FFFD"

\* the rune peek and peekNext return past the end of the source
NoRune == "U+0000"

\* utf8.DecodeRuneInString(src[at:])
DecodeRuneInString(src, at) ==
    IF at >= Len(src) THEN [ch |-> RuneError, size |-> 0]
    ELSE IF src[at + 1] = "C3"
    THEN IF at + 2 <= Len(src) /\ src[at + 2] = "A9"
         THEN [ch |-> "U+00E9", size |-> 2]
         ELSE [ch |-> RuneError, size |-> 1]
    ELSE IF src[at + 1] = "A9" THEN [ch |-> RuneError, size |-> 1]
    ELSE [ch |-> src[at + 1], size |-> 1]

AsciiLetters ==
    {"a", "b", "c", "d", "e", "f", "g", "h", "i", "j", "k", "l", "m", "n", "o",
     "p", "q", "r", "s", "t", "u", "v", "w", "x", "y", "z", "A", "B", "C", "D",
     "E", "F", "G", "H", "I", "J", "K", "L", "M", "N", "O", "P", "Q", "R", "S",
     "T", "U", "V", "W", "X", "Y", "Z"}

\* unicode.IsLetter(ch) || ch == '_'
isLetter(ch) == ch \in AsciiLetters \cup {"U+00E9", "_"}

isDigit(ch) == ch \in {"0", "1", "2", "3", "4", "5", "6", "7", "8", "9"}

\* the keywords map, keyed by the bytes of the identifier
keywords ==
    (<<"i", "f">> :> "TokenIf") @@ (<<"e", "l", "s", "e">> :> "TokenElse")
    @@ (<<"f", "o", "r">> :> "TokenFor")
    @@ (<<"w", "h", "i", "l", "e">> :> "TokenWhile")
    @@ (<<"b", "r", "e", "a", "k">> :> "TokenBreak")
    @@ (<<"c", "o", "n", "t", "i", "n", "u", "e">> :> "TokenContinue")
    @@ (<<"r", "e", "t", "u", "r", "n">> :> "TokenReturn")
    @@ (<<"s", "w", "i", "t", "c", "h">> :> "TokenSwitch")
    @@ (<<"c", "a", "s", "e">> :> "TokenCase")
    @@ (<<"d", "e", "f", "a", "u", "l", "t">> :> "TokenDefault")
    @@ (<<"f", "u", "n", "c">> :> "TokenFunc")
    @@ (<<"v", "a", "r">> :> "TokenVar")
    @@ (<<"c", "o", "n", "s", "t">> :> "TokenConst")
    @@ (<<"t", "y", "p", "e">> :> "TokenTypeKeyword")
    @@ (<<"s", "t", "r", "u", "c", "t">> :> "TokenStruct")
    @@ (<<"i", "n", "t", "e", "r", "f", "a", "c", "e">> :> "TokenInterface")
    @@ (<<"i", "m", "p", "o", "r", "t">> :> "TokenImport")
    @@ (<<"p", "a", "c", "k", "a", "g", "e">> :> "TokenPackage")
    @@ (<<"t", "r", "u", "e">> :> "TokenTrue")
    @@ (<<"f", "a", "l", "s", "e">> :> "TokenFalse")
    @@ (<<"n", "i", "l">> :> "TokenNil")

LookupKeyword(identifier) ==
    IF identifier \in DOMAIN keywords THEN keywords[identifier]
    ELSE "TokenIdentifier"

\* lexer.New
NewLexer(src) ==
    [source |-> src, start |-> 0, current |-> 0, line |-> 1, lineStart |-> 0]

isAtEnd(l) == l.current >= Len(l.source)

\* an advance that steps over well-formed characters only
advanceWellFormed(l) ==
    IF isAtEnd(l) \/ DecodeRuneInString(l.source, l.current).ch = RuneError THEN l
    ELSE [l EXCEPT !.current = @ + DecodeRuneInString(l.source, l.current).size]

\* the lexer after advance(); the rune advance returns is peek before it
advance(l) ==
    IF isAtEnd(l) THEN l
    ELSE [l EXCEPT !.current = @ + DecodeRuneInString(l.source, l.current).size]

peek(l) ==
    IF isAtEnd(l) THEN NoRune ELSE DecodeRuneInString(l.source, l.current).ch

peekNext(l) ==
    IF l.current + 1 >= Len(l.source) THEN NoRune
    ELSE DecodeRuneInString(
            l.source,
            l.current + DecodeRuneInString(l.source, l.current).size).ch

\* what match(expected) returns
matches(l, expected) ==
    ~isAtEnd(l) /\ DecodeRuneInString(l.source, l.current).ch = expected

\* the lexer after match(expected)
match(l, expected) == IF matches(l, expected) THEN advance(l) ELSE l

RECURSIVE skipWhitespace(_)
skipWhitespace(l) ==
    Strict(l,
    IF isAtEnd(l) THEN l
    ELSE IF peek(l) \in {" ", "\r", "\t"} THEN skipWhitespace(advance(l))
    ELSE IF peek(l) = "\n"
    THEN skipWhitespace([advance(l) EXCEPT !.line = @ + 1,
                                           !.lineStart = advance(l).current])
    ELSE l)

currentPosition(l) ==
    [line |-> l.line, column |-> l.start - l.lineStart + 1, offset |-> l.start]

makeToken(l, tokenType, lexeme) ==
    [type |-> tokenType, lexeme |-> lexeme, pos |-> currentPosition(l),
     length |-> l.current - l.start]

NoError == [msg |-> ""]

\* Lexer.error
LexError(l, message) == [pos |-> currentPosition(l), msg |-> message]

\* source[start:current]
text(l) == SubSeq(l.source, l.start + 1, l.current)

\* "return l.makeToken(tokenType, lexeme), nil"
Tok(l, tokenType, lexeme) ==
    [l |-> l, tok |-> makeToken(l, tokenType, lexeme), err |-> NoError]

\* "return l.makeToken(TokenInvalid, ""), l.error(message)"
Bad(l, message) ==
    [l |-> l, tok |-> makeToken(l, "TokenInvalid", <<>>),
     err |-> LexError(l, message)]

\* the loop of scanIdentifier, and of scanNumber with digits only
RECURSIVE Consume(_, _)
Consume(l, digitsOnly) ==
    Strict(l,
    IF ~isAtEnd(l) /\ (isDigit(peek(l)) \/ (~digitsOnly /\ isLetter(peek(l))))
    THEN Consume(advance(l), digitsOnly)
    ELSE l)

scanIdentifier(l) ==
    With([l1 \in {Consume(l, FALSE)} |->
      Tok(l1, LookupKeyword(text(l1)), text(l1))])

\* the fraction of scanNumber
Fraction(l) ==
    IF ~isAtEnd(l) /\ peek(l) = "." /\ peekNext(l) # "." /\ isDigit(peekNext(l))
    THEN Consume(advance(l), TRUE)
    ELSE l

\* the exponent of scanNumber; current is restored when no digit follows
Exponent(l) ==
    IF ~isAtEnd(l) /\ peek(l) \in {"e", "E"}
    THEN With([l1 \in {IF ~isAtEnd(advance(l)) /\ peek(advance(l)) \in {"+", "-"}
                       THEN advance(advance(l)) ELSE advance(l)} |->
           IF isAtEnd(l1) \/ ~isDigit(peek(l1)) THEN l
           ELSE Consume(l1, TRUE)])
    ELSE l

scanNumber(l) ==
    With([l1 \in {Exponent(Fraction(Consume(l, TRUE)))} |->
      Tok(l1, "TokenNumber", text(l1))])

RECURSIVE scanString(_)
scanString(l) ==
    Strict(l,
    IF isAtEnd(l) THEN Bad(l, "unterminated string literal")
    ELSE IF peek(l) = "\"" THEN Tok(advance(l), "TokenString", text(advance(l)))
    ELSE IF peek(l) = "\n" THEN Bad(l, "unterminated string literal")
    ELSE IF peek(l) = "\\" THEN scanString(advance(advance(l)))
    ELSE scanString(advance(l)))

scanChar(l) ==
    IF isAtEnd(l) \/ peek(l) = "\n"
    THEN Bad(l, "unterminated character literal")
    ELSE With([l1 \in {IF peek(l) = "\\" THEN advance(advance(l))
                       ELSE advance(l)} |->
           IF isAtEnd(l1) \/ peek(l1) # "'"
           THEN Bad(l1, "unterminated character literal")
           ELSE Tok(advance(l1), "TokenChar", text(advance(l1)))])

RECURSIVE scanLineComment(_)
scanLineComment(l) ==
    Strict(l,
    IF ~isAtEnd(l) /\ peek(l) # "\n" THEN scanLineComment(advance(l))
    ELSE Tok(l, "TokenComment", text(l)))

RECURSIVE scanBlockComment(_, _)
scanBlockComment(l, depth) ==
    Strict(l,
    IF ~isAtEnd(l) /\ depth > 0
    THEN IF peek(l) = "/" /\ peekNext(l) = "*"
         THEN scanBlockComment(advance(advance(l)), depth + 1)
         ELSE IF peek(l) = "*" /\ peekNext(l) = "/"
         THEN scanBlockComment(advance(advance(l)), depth - 1)
         ELSE IF peek(l) = "\n"
         THEN scanBlockComment(
                advance([l EXCEPT !.line = @ + 1, !.lineStart = l.current + 1]),
                depth)
         ELSE scanBlockComment(advance(l), depth)
    ELSE IF depth > 0 THEN Bad(l, "unterminated block comment")
    ELSE Tok(l, "TokenComment", text(l)))

\* "if l.match(x) { return makeToken(..) } else if l.match(y) ... return
\* makeToken(otherwise)": alts lists <<expected, type>> in the order tried
RECURSIVE Either(_, _, _, _, _)
Either(l, ch, alts, i, otherwise) ==
    IF i > Len(alts) THEN Tok(l, otherwise, <<ch>>)
    ELSE IF matches(l, alts[i][1])
    THEN Tok(advance(l), alts[i][2], <<ch, alts[i][1]>>)
    ELSE Either(l, ch, alts, i + 1, otherwise)

\* the tokens of one character that no other token starts with
Single ==
    ("(" :> "TokenLeftParen") @@ (")" :> "TokenRightParen")
    @@ ("{" :> "TokenLeftBrace") @@ ("}" :> "TokenRightBrace")
    @@ ("[" :> "TokenLeftBracket") @@ ("]" :> "TokenRightBracket")
    @@ (";" :> "TokenSemicolon") @@ ("," :> "TokenComma")
    @@ ("~" :> "TokenBitNot") @@ ("?" :> "TokenQuestion")

\* the switch of NextToken, on the character ch that was consumed
Punctuation(l, ch) ==
    CASE ch \in DOMAIN Single -> Tok(l, Single[ch], <<ch>>)
      [] ch = "+" -> Either(l, ch, <<<<"+", "TokenPlusPlus">>,
                                     <<"=", "TokenPlusEq">>>>, 1, "TokenPlus")
      [] ch = "-" -> Either(l, ch, <<<<"-", "TokenMinusMinus">>,
                                     <<"=", "TokenMinusEq">>,
                                     <<">", "TokenArrow">>>>, 1, "TokenMinus")
      [] ch = "*" -> Either(l, ch, <<<<"*", "TokenStarStar">>,
                                     <<"=", "TokenStarEq">>>>, 1, "TokenStar")
      [] ch = "/" -> IF matches(l, "/") THEN scanLineComment(advance(l))
                     ELSE IF matches(l, "*") THEN scanBlockComment(advance(l), 1)
                     ELSE Either(l, ch, <<<<"=", "TokenSlashEq">>>>, 1,
                                 "TokenSlash")
      [] ch = "%" -> Either(l, ch, <<<<"=", "TokenPercentEq">>>>, 1,
                            "TokenPercent")
      [] ch = "&" -> Either(l, ch, <<<<"&", "TokenAnd">>,
                                     <<"=", "TokenAndEq">>>>, 1, "TokenBitAnd")
      [] ch = "|" -> Either(l, ch, <<<<"|", "TokenOr">>,
                                     <<"=", "TokenOrEq">>>>, 1, "TokenBitOr")
      [] ch = "^" -> Either(l, ch, <<<<"=", "TokenXorEq">>>>, 1, "TokenBitXor")
      [] ch = "=" -> Either(l, ch, <<<<"=", "TokenEqual">>>>, 1, "TokenAssign")
      [] ch = "!" -> Either(l, ch, <<<<"=", "TokenNotEqual">>>>, 1, "TokenNot")
      [] ch = "<" -> IF matches(l, "<")
                     THEN IF matches(advance(l), "=")
                          THEN Tok(advance(advance(l)), "TokenShlEq",
                                   <<"<", "<", "=">>)
                          ELSE Tok(advance(l), "TokenShl", <<"<", "<">>)
                     ELSE Either(l, ch, <<<<"=", "TokenLessEqual">>>>, 1,
                                 "TokenLess")
      [] ch = ">" -> IF matches(l, ">")
                     THEN IF matches(advance(l), "=")
                          THEN Tok(advance(advance(l)), "TokenShrEq",
                                   <<">", ">", "=">>)
                          ELSE Tok(advance(l), "TokenShr", <<">", ">">>)
                     ELSE Either(l, ch, <<<<"=", "TokenGreaterEqual">>>>, 1,
                                 "TokenGreater")
      [] ch = ":" -> Either(l, ch, <<<<":", "TokenColonColon">>>>, 1,
                            "TokenColon")
      [] ch = "." -> IF matches(l, ".") /\ matches(advance(l), ".")
                     THEN Tok(advance(advance(l)), "TokenEllipsis",
                              <<".", ".", ".">>)
                     ELSE Tok(match(l, "."), "TokenDot", <<".">>)
      [] ch = "\"" -> scanString(l)
      [] ch = "'" -> scanChar(l)
      [] OTHER -> Bad(l, "unexpected character")

\* "l.skipWhitespace(); l.start = l.current"
Begin(l) == [skipWhitespace(l) EXCEPT !.start = skipWhitespace(l).current]

\* after "ch, size := l.advance()": l has consumed ch
Scan(l, ch) ==
    IF isLetter(ch) THEN scanIdentifier(l)
    ELSE IF isDigit(ch) THEN scanNumber(l)
    ELSE Punctuation(l, ch)

\* Lexer.NextToken: the lexer afterwards, the token and the error
NextToken(l) ==
    IF isAtEnd(Begin(l)) THEN Tok(Begin(l), "TokenEOF", <<>>)
    ELSE Scan(advance(Begin(l)), peek(Begin(l)))

\* ------------------------------------------------------------------------
\* The expression parser (internal/parser): the Pratt loop over the tokens
\* of the lexer.  A parser is its lexer, the current and the previous token,
\* the errors and the panic flag; an operator node keeps the type of its
\* operator token.  Every parse function returns the parser afterwards (p)
\* and the expression (e), NoExpr for nil.  Of parsePrefix and parseInfix
\* the cases of identifiers and of the unary, binary, logical and assignment
\* operators, of number literals, groupings, struct literals and calls are
\* modelled; the sources parsed hold no other token.
\* ------------------------------------------------------------------------

PrecNone == 0
PrecAssignment == 1
PrecOr == 2
PrecAnd == 3
PrecEquality == 4
PrecComparison == 5
PrecBitOr == 6
PrecBitXor == 7
PrecBitAnd == 8
PrecShift == 9
PrecTerm == 10
PrecFactor == 11
PrecExponent == 12
PrecUnary == 13
PrecCall == 14
PrecPrimary == 15

AssignmentTokens ==
    {"TokenAssign", "TokenPlusEq", "TokenMinusEq", "TokenStarEq", "TokenSlashEq",
     "TokenPercentEq", "TokenAndEq", "TokenOrEq", "TokenXorEq", "TokenShlEq",
     "TokenShrEq"}

BinaryTokens ==
    {"TokenPlus", "TokenMinus", "TokenStar", "TokenSlash", "TokenPercent",
     "TokenStarStar", "TokenEqual", "TokenNotEqual", "TokenLess",
     "TokenLessEqual", "TokenGreater", "TokenGreaterEqual", "TokenBitAnd",
     "TokenBitOr", "TokenBitXor", "TokenShl", "TokenShr"}

getPrecedence(tokenType) ==
    CASE tokenType \in AssignmentTokens -> PrecAssignment
      [] tokenType = "TokenOr" -> PrecOr
      [] tokenType = "TokenAnd" -> PrecAnd
      [] tokenType \in {"TokenEqual", "TokenNotEqual"} -> PrecEquality
      [] tokenType \in {"TokenLess", "TokenLessEqual", "TokenGreater",
                        "TokenGreaterEqual"} -> PrecComparison
      [] tokenType = "TokenBitOr" -> PrecBitOr
      [] tokenType = "TokenBitXor" -> PrecBitXor
      [] tokenType = "TokenBitAnd" -> PrecBitAnd
      [] tokenType \in {"TokenShl", "TokenShr"} -> PrecShift
      [] tokenType \in {"TokenPlus", "TokenMinus"} -> PrecTerm
      [] tokenType \in {"TokenStar", "TokenSlash", "TokenPercent"} -> PrecFactor
      [] tokenType = "TokenStarStar" -> PrecExponent
      [] tokenType \in {"TokenDot", "TokenLeftBracket", "TokenLeftParen"}
            -> PrecCall
      [] OTHER -> PrecNone

\* a table in which no operator associates to the right
isNeverRightAssociative(tokenType) == FALSE

isRightAssociative(tokenType) ==
    tokenType \in AssignmentTokens \cup {"TokenStarStar"}

\* the zero Token
ZeroToken ==
    [type |-> "TokenEOF", lexeme |-> <<>>,
     pos |-> [line |-> 0, column |-> 0, offset |-> 0], length |-> 0]

\* a panic is on its way up to the deferred recover of parseDecl or of
\* parseStmt (panicking), or a loop of the parser repeats one iteration for
\* ever (hung); in both no statement of the parser runs any more
Unwinding(p) == p.panicking \/ p.hung

\* panic(message)
Panic(p) == IF Unwinding(p) THEN p ELSE [p EXCEPT !.panicking = TRUE]

\* Parser.error
ParserError(p, message) ==
    IF Unwinding(p) \/ p.panicMode THEN p
    ELSE [p EXCEPT !.panicMode = TRUE,
                   !.errors = Append(@, [pos |-> p.current.pos, msg |-> message])]

\* Parser.advance
ParserAdvance(p) ==
    With([r \in {NextToken(p.lexer)} |->
      IF Unwinding(p) THEN p
      ELSE IF r.err.msg # ""
      THEN [ParserError([p EXCEPT !.previous = p.current, !.lexer = r.l],
                        r.err.msg)
               EXCEPT !.current = [ZeroToken EXCEPT !.type = "TokenInvalid"]]
      ELSE [p EXCEPT !.previous = p.current, !.lexer = r.l, !.current = r.tok]])

\* parser.New
NewParser(l) ==
    ParserAdvance([lexer |-> l, current |-> ZeroToken, previous |-> ZeroToken,
                   errors |-> <<>>, panicMode |-> FALSE,
                   panicking |-> FALSE, hung |-> FALSE])

\* Parser.check
check(p, tokenType) == p.current.type = tokenType

\* Parser.consume
consume(p, tokenType, message) ==
    IF check(p, tokenType) THEN ParserAdvance(p)
    ELSE Panic(ParserError(p, message))

RECURSIVE parsePrecedence(_, _)
RECURSIVE parsePrefix(_)
RECURSIVE parseInfix(_, _)
RECURSIVE InfixLoop(_, _, _)
RECURSIVE FieldLoop(_)
RECURSIVE ArgLoop(_, _)

\* the loop over the fields of parseStructLiteral
FieldLoop(p) ==
    Strict(p,
    IF Unwinding(p) THEN p
    ELSE IF ~check(p, "TokenIdentifier") THEN ParserError(p, "expected field name")
    ELSE With([value \in {parsePrecedence(
                             consume(ParserAdvance(p), "TokenColon",
                                     "expected ':' after field name"),
                             PrecAssignment)} |->
           IF check(value.p, "TokenComma") THEN FieldLoop(ParserAdvance(value.p))
           ELSE value.p]))

parseStructLiteral(p, typeName) ==
    With([p1 \in {consume(p, "TokenLeftBrace", "expected '{'")} |->
    With([p2 \in {IF ~check(p1, "TokenRightBrace") THEN FieldLoop(p1) ELSE p1} |->
      [p |-> consume(p2, "TokenRightBrace", "expected '}' after struct fields"),
       e |-> [e |-> "struct", name |-> typeName.name]]])])

parseIdentifier(p) ==
    IF check(ParserAdvance(p), "TokenLeftBrace")
    THEN parseStructLiteral(ParserAdvance(p), Id(p.current.lexeme))
    ELSE [p |-> ParserAdvance(p), e |-> Id(p.current.lexeme)]

\* parseNumberLiteral, for a lexeme that strconv.ParseInt accepts
parseNumberLiteral(p) ==
    [p |-> ParserAdvance(p), e |-> Lit("int", p.current.lexeme)]

parseGrouping(p) ==
    With([inner \in {parsePrecedence(ParserAdvance(p), PrecAssignment)} |->
      [p |-> consume(inner.p, "TokenRightParen", "expected ')' after expression"),
       e |-> Group(inner.e)]])

\* the loop over the arguments of parseCall
ArgLoop(p, args) ==
    Strict(p,
    IF Unwinding(p) THEN [p |-> p, args |-> args]
    ELSE With([arg \in {parsePrecedence(p, PrecAssignment)} |->
           IF check(arg.p, "TokenComma")
           THEN ArgLoop(ParserAdvance(arg.p), Append(args, arg.e))
           ELSE [p |-> arg.p, args |-> Append(args, arg.e)]]))

parseCall(p, left) ==
    With([r \in {IF ~check(ParserAdvance(p), "TokenRightParen")
                 THEN ArgLoop(ParserAdvance(p), <<>>)
                 ELSE [p |-> ParserAdvance(p), args |-> <<>>]} |->
      [p |-> consume(r.p, "TokenRightParen", "expected ')' after arguments"),
       e |-> Call(left, r.args)]])

parseUnary(p) ==
    With([operand \in {parsePrecedence(ParserAdvance(p), PrecUnary)} |->
      [p |-> operand.p,
       e |-> Put(Un(p.current.type, operand.e), "postfix", FALSE)]])

parseBinary(p, left) ==
    With([right \in {parsePrecedence(
                        ParserAdvance(p),
                        (IF isRightAssociative(p.current.type)
                         THEN getPrecedence(p.current.type) - 1
                         ELSE getPrecedence(p.current.type)) + 1)} |->
      [p |-> right.p, e |-> Bin(p.current.type, left, right.e)]])

parseLogical(p, left) ==
    With([right \in {parsePrecedence(ParserAdvance(p),
                                     getPrecedence(p.current.type) + 1)} |->
      [p |-> right.p, e |-> Logical(p.current.type, left, right.e)]])

parseAssignment(p, left) ==
    With([right \in {parsePrecedence(ParserAdvance(p), PrecAssignment)} |->
      [p |-> right.p, e |-> Put(Assign(left, right.e), "op", p.current.type)]])

parsePrefix(p) ==
    CASE p.current.type = "TokenNumber" -> parseNumberLiteral(p)
      [] p.current.type = "TokenIdentifier" -> parseIdentifier(p)
      [] p.current.type = "TokenLeftParen" -> parseGrouping(p)
      [] p.current.type \in {"TokenMinus", "TokenNot", "TokenBitNot",
                             "TokenPlusPlus", "TokenMinusMinus"} -> parseUnary(p)
      [] OTHER -> [p |-> p, e |-> NoExpr]

parseInfix(p, left) ==
    CASE p.current.type \in BinaryTokens -> parseBinary(p, left)
      [] p.current.type \in {"TokenAnd", "TokenOr"} -> parseLogical(p, left)
      [] p.current.type \in AssignmentTokens -> parseAssignment(p, left)
      [] p.current.type = "TokenLeftParen" -> parseCall(p, left)
      [] p.current.type \in {"TokenPlusPlus", "TokenMinusMinus"} ->
            [p |-> ParserAdvance(p),
             e |-> Put(Un(p.current.type, left), "postfix", TRUE)]
      [] OTHER -> [p |-> p, e |-> left]

\* "for precedence <= getPrecedence(p.current.Type) { left = p.parseInfix(left) }"
InfixLoop(p, left, precedence) ==
    Strict(p,
    IF ~Unwinding(p) /\ precedence <= getPrecedence(p.current.type)
    THEN With([r \in {parseInfix(p, left)} |-> InfixLoop(r.p, r.e, precedence)])
    ELSE [p |-> p, e |-> left])

parsePrecedence(p, precedence) ==
    Strict(p,
    IF Unwinding(p) THEN [p |-> p, e |-> NoExpr]
    ELSE With([left \in {parsePrefix(p)} |->
           IF left.e = NoExpr
           THEN [p |-> ParserError(left.p, "expected expression"), e |-> NoExpr]
           ELSE InfixLoop(left.p, left.e, precedence)]))

parseExpression(p) == parsePrecedence(p, PrecAssignment)

\* the spelling of the binary, logical and assignment operators
Operators ==
    {<<"+">>, <<"-">>, <<"*">>, <<"/">>, <<"%">>, <<"*", "*">>, <<"=", "=">>,
     <<"!", "=">>, <<"<">>, <<"<", "=">>, <<">">>, <<">", "=">>, <<"&">>,
     <<"|">>, <<"^">>, <<"<", "<">>, <<">", ">">>, <<"&", "&">>, <<"|", "|">>,
     <<"=">>, <<"+", "=">>, <<"-", "=">>, <<"*", "=">>, <<"/", "=">>,
     <<"%", "=">>, <<"&", "=">>, <<"|", "=">>, <<"^", "=">>, <<"<", "<", "=">>,
     <<">", ">", "=">>}

\* "a OP1 b OP2 c" with the blanks between its tokens, or with none
Chain(op1, op2, blank) ==
    <<"a">> \o blank \o op1 \o blank \o <<"b">> \o blank \o op2 \o blank
        \o <<"c">>

\* the operands of the postfix sources and the spelling of ++ and --
PostfixOperands == {<<"a">>, <<"1">>, <<"(", "a", ")">>}

PostfixOperators == {<<"+", "+">>, <<"-", "-">>}

\* "a++", "a --", "(a)++", ...: an operand followed by ++ or --
Postfixed ==
    {operand \o blank \o op :
        operand \in PostfixOperands, op \in PostfixOperators, blank \in {<<>>, <<" ">>}}

Expressions ==
    {Chain(op1, op2, blank) :
        op1 \in Operators, op2 \in Operators, blank \in {<<>>, <<" ">>}}
    \cup Postfixed

\* a parser has been made for an expression; tree is empty until
\* parseExpression has returned, and then holds what it returned
ParserInit ==
    /\ parser \in {NewParser(NewLexer(src)) : src \in Expressions}
    /\ tree = <<>>
    /\ parsing = "expression"
    /\ DriverIdle /\ LexerIdle /\ SymtabIdle /\ TypesIdle

ParseExpression ==
    /\ parsing = "expression"
    /\ tree = <<>>
    /\ \E r \in {parseExpression(parser)} :
          /\ parser' = r.p
          /\ tree' = <<r.e>>
    /\ UNCHANGED <<parsing, driverVars, lexerVars, symtabVars, typeVars>>

ParserSpec == ParserInit /\ [][ParseExpression]_vars

\* ------------------------------------------------------------------------
\* C12: the shape of a OP1 b OP2 c
\* ------------------------------------------------------------------------

\* the precedence table of the language, lowest level first, by spelling
Levels ==
    <<{<<"=">>, <<"+", "=">>, <<"-", "=">>, <<"*", "=">>, <<"/", "=">>,
       <<"%", "=">>, <<"&", "=">>, <<"|", "=">>, <<"^", "=">>,
       <<"<", "<", "=">>, <<">", ">", "=">>},
      {<<"|", "|">>},
      {<<"&", "&">>},
      {<<"=", "=">>, <<"!", "=">>},
      {<<"<">>, <<"<", "=">>, <<">">>, <<">", "=">>},
      {<<"|">>},
      {<<"^">>},
      {<<"&">>},
      {<<"<", "<">>, <<">", ">">>},
      {<<"+">>, <<"-">>},
      {<<"*">>, <<"/">>, <<"%">>},
      {<<"*", "*">>}>>

LevelOf(op) == CHOOSE i \in DOMAIN Levels : op \in Levels[i]

RightAssociative(op) == op \in Levels[1] \/ op = <<"*", "*">>

\* the node the parser is to build for one operator over two operands
NodeOf(op, l, r) ==
    LET type == NextToken(NewLexer(op)).tok.type
    IN  IF op \in Levels[1] THEN Put(Assign(l, r), "op", type)
        ELSE IF op \in Levels[2] \cup Levels[3] THEN Logical(type, l, r)
        ELSE Bin(type, l, r)

ShapeOf(op1, op2) ==
    IF \/ LevelOf(op1) > LevelOf(op2)
       \/ LevelOf(op1) = LevelOf(op2) /\ ~RightAssociative(op1)
    THEN NodeOf(op2, NodeOf(op1, Id(<<"a">>), Id(<<"b">>)), Id(<<"c">>))
    ELSE NodeOf(op1, Id(<<"a">>), NodeOf(op2, Id(<<"b">>), Id(<<"c">>)))

\* C12: for every source a OP1 b OP2 c over the binary, logical and assignment
\* operators, parseExpression returns (a OP1 b) OP2 c when OP1 is on a higher
\* level of the precedence table than OP2, or on the same level and not
\* right-associative, and a OP1 (b OP2 c) otherwise, where only the assignment
\* operators and ** are right-associative; it reports no error
PrecedenceShapesTree ==
    tree # <<>> =>
        \A op1 \in Operators, op2 \in Operators, blank \in {<<>>, <<" ">>} :
            parser.lexer.source = Chain(op1, op2, blank) =>
                /\ tree[1] = ShapeOf(op1, op2)
                /\ parser.errors = <<>>
                /\ parser.current.type = "TokenEOF"

ExponentNestsRight ==
    /\ parser.lexer.source = <<"a", " ", "*", " ", "b", " ", "*", "*", " ", "c">>
    /\ tree = <<Bin("TokenStar", Id(<<"a">>),
                    Bin("TokenStarStar", Id(<<"b">>), Id(<<"c">>)))>>

\* ------------------------------------------------------------------------
\* The lexer on its own.  A source is at most MaxPieces pieces, each a few
\* bytes: letters (one of two bytes), digits, blanks and newlines, operators,
\* the delimiters of comments, strings and characters, a comment over two
\* lines, bytes that are no UTF-8 and a character that starts no token.
\* NextToken is called again and again; tokens lists what it returned.  The
\* calls stop once MaxRepeats ends of file have been returned.
\* ------------------------------------------------------------------------

MaxPieces == 3

MaxRepeats == 2

Pieces ==
    {<<"a">>, <<"C3", "A9">>, <<"A9">>, <<"C3">>, <<"1">>, <<"e">>, <<".">>,
     <<" ">>, <<"\n">>, <<"+">>, <<"=">>, <<"<">>, <<"/", "/">>, <<"/", "*">>,
     <<"*", "/">>, <<"/", "*", "\n", "*", "/">>, <<"\"">>, <<"'">>, <<"\\">>,
     <<"@">>}

RECURSIVE Texts(_)
\* the concatenations of n pieces
Texts(n) ==
    IF n = 0 THEN {<<>>} ELSE {t \o piece : t \in Texts(n - 1), piece \in Pieces}

LexerSources == UNION {Texts(n) : n \in 0..MaxPieces}

\* the ends of file among the tokens returned
Ends(toks) == {i \in DOMAIN toks : toks[i].tok.type = "TokenEOF"}

LexerInit ==
    /\ lexer \in {NewLexer(src) : src \in LexerSources}
    /\ tokens = <<>>
    /\ DriverIdle /\ ParserIdle /\ SymtabIdle /\ TypesIdle

CallNextToken ==
    /\ Cardinality(Ends(tokens)) < MaxRepeats
    /\ \E r \in {NextToken(lexer)} :
          /\ lexer' = r.l
          /\ tokens' = Append(tokens, [tok |-> r.tok, err |-> r.err])
    /\ UNCHANGED <<driverVars, parserVars, symtabVars, typeVars>>

LexerNext == CallNextToken

LexerSpec == LexerInit /\ [][LexerNext]_vars

\* ------------------------------------------------------------------------
\* C13: the token stream ends
\* ------------------------------------------------------------------------

\* the tokens returned before the first end of file
Before(toks) == {i \in DOMAIN toks : \A j \in 1..i : toks[j].tok.type # "TokenEOF"}

\* a call that returns no end of file consumes bytes; once an end of file has
\* been returned the next call returns one too
TokenStep ==
    /\ tokens'[Len(tokens')].tok.type # "TokenEOF" =>
          lexer'.current > lexer.current
    /\ Ends(tokens) # {} => tokens'[Len(tokens')].tok.type = "TokenEOF"

\* C13: calling NextToken again and again returns TokenEOF after finitely many
\* calls, at most as many as the source has bytes, every call before it having
\* consumed at least one byte of the source, and every call after the first
\* TokenEOF returns TokenEOF again
TokenStreamEnds ==
    /\ [][TokenStep]_vars
    /\ [](/\ Cardinality(Before(tokens)) <= lexer.current
          /\ lexer.current <= Len(lexer.source)
          /\ Ends(tokens) # {} => isAtEnd(lexer))

EndOfFileRepeated ==
    /\ lexer.source = <<"a", "\n", "1">>
    /\ Len(tokens) = 4
    /\ [i \in 1..4 |-> tokens[i].tok.type]
          = <<"TokenIdentifier", "TokenNumber", "TokenEOF", "TokenEOF">>

\* ------------------------------------------------------------------------
\* C14: the position of a token
\* ------------------------------------------------------------------------

\* the offset at which the i-th call of NextToken found the lexer: the end of
\* the token before
CallOffset(i) ==
    IF i = 1 THEN 0 ELSE tokens[i - 1].tok.pos.offset + tokens[i - 1].tok.length

RECURSIVE FirstByte(_, _)
\* the offset of the first byte at or after from that is no white space
FirstByte(src, from) ==
    IF from < Len(src) /\ src[from + 1] \in {" ", "\r", "\t", "\n"}
    THEN FirstByte(src, from + 1)
    ELSE from

RECURSIVE Characters(_, _, _)
\* the number of characters in the bytes of src from offset from up to offset to
Characters(src, from, to) ==
    IF from >= to THEN 0
    ELSE 1 + Characters(src, from + DecodeRuneInString(src, from).size, to)

\* the line, column and offset of the byte at offset at, from the text alone
PositionOf(src, at) ==
    LET newlines == {i \in 1..at : src[i] = "\n"}
        lineStart == IF newlines = {} THEN 0
                     ELSE CHOOSE i \in newlines : \A j \in newlines : j <= i
    IN  [line |-> 1 + Cardinality(newlines),
         column |-> 1 + Characters(src, lineStart, at),
         offset |-> at]

\* C14: every token NextToken returns without an error carries the line, the
\* column and the byte offset of its first byte, the column counting the
\* characters from the start of the line, from 1
TokensCarryPosition ==
    \A i \in DOMAIN tokens :
        tokens[i].err = NoError =>
            tokens[i].tok.pos
                = PositionOf(lexer.source, FirstByte(lexer.source, CallOffset(i)))

\* ------------------------------------------------------------------------
\* The scope chain on its own (internal/symtab).  symtab holds the scopes
\* made so far and the current one; a client opens a scope under the
\* current one, goes back to the parent, and calls Define, Lookup and
\* LookupLocal on the current scope.  returned is the last call and what it
\* returned: for Define whether it was an error, for the lookups the symbol
\* (NoSym for nil).
\* ------------------------------------------------------------------------

MaxScopes == 3

Names == {"x", "y"}

SymtabInit ==
    /\ symtab = [scopes |-> NewScope(<<>>, "global", 0), cur |-> GlobalScope]
    /\ returned = [op |-> "NewScope"]
    /\ DriverIdle /\ LexerIdle /\ ParserIdle /\ TypesIdle

OpenScope ==
    /\ Len(symtab.scopes) < MaxScopes
    /\ symtab' = [scopes |-> NewScope(symtab.scopes, "block", symtab.cur),
                  cur |-> Len(symtab.scopes) + 1]
    /\ returned' = [op |-> "NewScope"]
    /\ UNCHANGED <<driverVars, lexerVars, parserVars, typeVars>>

CloseScope ==
    /\ symtab.scopes[symtab.cur].parent # 0
    /\ symtab' = [symtab EXCEPT !.cur = symtab.scopes[symtab.cur].parent]
    /\ returned' = [op |-> "Parent"]
    /\ UNCHANGED <<driverVars, lexerVars, parserVars, typeVars>>

CallDefine ==
    /\ \E name \in Names :
          /\ symtab' = [symtab EXCEPT !.scopes =
                           Define(@, symtab.cur, NewSymbol(name, "variable", IntT))]
          /\ returned' = [op |-> "Define", name |-> name,
                          err |-> DefineFails(symtab.scopes, symtab.cur, name)]
    /\ UNCHANGED <<driverVars, lexerVars, parserVars, typeVars>>

CallLookup ==
    /\ \E name \in Names :
          /\ symtab' = [symtab EXCEPT !.scopes =
                           MarkUsed(@, Lookup(symtab.scopes, symtab.cur, name))]
          /\ returned' = [op |-> "Lookup", name |-> name,
                          symbol |-> Lookup(symtab.scopes, symtab.cur, name)]
    /\ UNCHANGED <<driverVars, lexerVars, parserVars, typeVars>>

CallLookupLocal ==
    /\ \E name \in Names :
          returned' = [op |-> "LookupLocal", name |-> name,
                       symbol |-> LookupLocal(symtab.scopes, symtab.cur, name)]
    /\ UNCHANGED symtab
    /\ UNCHANGED <<driverVars, lexerVars, parserVars, typeVars>>

SymtabNext ==
    \/ OpenScope
    \/ CloseScope
    \/ CallDefine
    \/ CallLookup
    \/ CallLookupLocal

SymtabSpec == SymtabInit /\ [][SymtabNext]_vars

\* ------------------------------------------------------------------------
\* C15: Define and the names of a scope
\* ------------------------------------------------------------------------

\* the table of the current scope
Table(st) == st.scopes[st.cur].symbols

\* the last step was a Define on the current scope
DefineStep ==
    returned'.op = "Define" =>
        IF returned'.name \in DOMAIN Table(symtab)
        THEN /\ returned'.err
             /\ symtab' = symtab
        ELSE /\ ~returned'.err
             /\ DOMAIN Table(symtab') = DOMAIN Table(symtab) \cup {returned'.name}
             /\ Table(symtab')[returned'.name]
                    = [NewSymbol(returned'.name, "variable", IntT)
                          EXCEPT !.index = Cardinality(DOMAIN Table(symtab))]
             /\ \A n \in DOMAIN Table(symtab) : Table(symtab')[n] = Table(symtab)[n]
             /\ \A s \in DOMAIN symtab.scopes :
                    s # symtab.cur => symtab'.scopes[s] = symtab.scopes[s]

RECURSIVE Chain16(_, _)
\* the scope s and the scopes around it
Chain16(scopes, s) ==
    {s} \cup (IF scopes[s].parent = 0 THEN {} ELSE Chain16(scopes, scopes[s].parent))

\* the scopes on the chain of the current scope that bind name
Binders(st, name) ==
    {s \in Chain16(st.scopes, st.cur) : name \in DOMAIN st.scopes[s].symbols}

\* the deepest of them
Nearest(st, name) ==
    CHOOSE s \in Binders(st, name) :
        \A t \in Binders(st, name) : st.scopes[t].depth <= st.scopes[s].depth

\* the last step was a lookup on the current scope
LookupStep ==
    /\ returned'.op = "Lookup" =>
          IF Binders(symtab, returned'.name) = {}
          THEN returned'.symbol = NoSym /\ symtab' = symtab
          ELSE /\ returned'.symbol = [scope |-> Nearest(symtab, returned'.name),
                                      name |-> returned'.name]
               /\ symtab' = [symtab EXCEPT
                                !.scopes[Nearest(symtab, returned'.name)]
                                   .symbols[returned'.name].used = TRUE]
    /\ returned'.op = "LookupLocal" =>
          /\ symtab' = symtab
          /\ returned'.symbol =
                IF returned'.name \in DOMAIN Table(symtab)
                THEN [scope |-> symtab.cur, name |-> returned'.name]
                ELSE NoSym

\* C16: Lookup returns the binding of the name in the nearest scope on the
\* chain from the current scope to the global one, nil when none binds it, and
\* sets the used flag of that symbol and of no other; LookupLocal returns the
\* binding of the current scope's own table, nil when it has none, and sets no
\* used flag
LookupFindsNearest == [][LookupStep]_vars

\* x is bound in the global scope and in the block inside it, and a Lookup
\* from the innermost of three scopes has returned the block's x and marked
\* it alone
InnerBindingUsed ==
    /\ returned.op = "Lookup"
    /\ returned.symbol = [scope |-> 2, name |-> "x"]
    /\ symtab.cur = 3
    /\ symtab.scopes[3].parent = 2
    /\ "x" \notin DOMAIN symtab.scopes[3].symbols
    /\ symtab.scopes[2].symbols["x"].used
    /\ "x" \in DOMAIN symtab.scopes[1].symbols
    /\ ~symtab.scopes[1].symbols["x"].used

\* ------------------------------------------------------------------------
\* The types on their own (internal/semantic/types).  operands are three
\* types without an invalid part, nested MaxTypeDepth deep at most, the
\* structs anonymous or one of two declared with the same field; verdict
\* holds, once they have been called, what Equals and AssignableTo answered
\* for every pair of them, row i column j for operands[i] against operands[j].
\* ------------------------------------------------------------------------

MaxTypeDepth == 1

RECURSIVE ValidTypes(_)
ValidTypes(depth) ==
    IF depth = 0 THEN {Void, IntT, BoolT, NilT}
    ELSE ValidTypes(depth - 1)
         \cup {NewArray(t, size) : t \in ValidTypes(depth - 1), size \in {-1, 2}}
         \cup {NewStruct("", fields) :
                 fields \in {<<>>} \cup {<<[name |-> "a", type |-> t]>> :
                                           t \in ValidTypes(depth - 1)}}
         \cup {NewStruct(name, <<[name |-> "a", type |-> IntT]>>) :
                 name \in {"S", "T"}}
         \cup {NewFunction(parameters, t) :
                 parameters \in {<<>>} \cup {<<u>> : u \in ValidTypes(depth - 1)},
                 t \in ValidTypes(depth - 1)}

TypesInit ==
    /\ operands \in {<<t, u, v>> : t \in ValidTypes(MaxTypeDepth),
                                   u \in ValidTypes(MaxTypeDepth),
                                   v \in ValidTypes(MaxTypeDepth)}
    /\ verdict = [equals |-> <<>>, assignable |-> <<>>]
    /\ DriverIdle /\ LexerIdle /\ ParserIdle /\ SymtabIdle

CallEquals ==
    /\ verdict.equals = <<>>
    /\ verdict' = [verdict EXCEPT !.equals =
                      [i \in 1..3 |-> [j \in 1..3 |-> Equals(operands[i], operands[j])]]]
    /\ UNCHANGED <<operands, driverVars, lexerVars, parserVars, symtabVars>>

CallAssignableTo ==
    /\ verdict.assignable = <<>>
    /\ verdict' = [verdict EXCEPT !.assignable =
                      [i \in 1..3 |->
                          [j \in 1..3 |-> AssignableTo(operands[i], operands[j])]]]
    /\ UNCHANGED <<operands, driverVars, lexerVars, parserVars, symtabVars>>

TypesNext ==
    \/ CallEquals
    \/ CallAssignableTo

TypesSpec == TypesInit /\ [][TypesNext]_vars

\* ------------------------------------------------------------------------
\* C17: type equality
\* ------------------------------------------------------------------------

EqualsReflexive == \A i \in 1..3 : verdict.equals[i][i]

EqualsSymmetric == \A i, j \in 1..3 : verdict.equals[i][j] = verdict.equals[j][i]

EqualsTransitive ==
    \A i, j, k \in 1..3 :
        verdict.equals[i][j] /\ verdict.equals[j][k] => verdict.equals[i][k]

\* C17: on the types without an invalid part, named and anonymous structs,
\* arrays and function types among them, Equals is reflexive, symmetric and
\* transitive
EqualsIsEquivalence ==
    verdict.equals # <<>> =>
        EqualsReflexive /\ EqualsSymmetric /\ EqualsTransitive

\* ------------------------------------------------------------------------
\* C18: assignability of a type to itself
\* ------------------------------------------------------------------------

\* C18: for every type t other than Invalid, t.AssignableTo(t) is true
AssignableToItself ==
    verdict.assignable # <<>> => \A i \in 1..3 : verdict.assignable[i][i]

\* ------------------------------------------------------------------------
\* C19: a branch on the constant true
\* ------------------------------------------------------------------------

\* func f() int { if (true) { return 1; } return 2; }
ReturnsOneOrTwo ==
    <<FuncDecl("f", <<>>, "int",
               Block(<<If(BoolLit(TRUE), Block(<<Return(IntLit(1))>>), NoStmt),
                       Return(IntLit(2))>>))>>

\* the blocks of fn.Blocks
BlocksOf(fn) == {fn.bb[fn.blocks[i]] : i \in DOMAIN fn.blocks}

\* C19: for func f() int { if (true) { return 1; } return 2; } the optimized
\* function has no block that returns 2, and its entry block returns const(1)
ConstantBranchPruned ==
    (file = ReturnsOneOrTwo /\ Ran("optimize")) =>
        /\ \A blk \in BlocksOf(module.functions[1]) :
              ReturnI(ConstV("int", 2)) \notin Range(blk.instrs)
        /\ Terminator(module.functions[1].bb[module.functions[1].blocks[1]])
              = ReturnI(ConstV("int", 1))

\* ------------------------------------------------------------------------
\* C20: division and modulo by the constant 0
\* ------------------------------------------------------------------------

RECURSIVE FoldTrace(_, _, _)
\* for each block of fn.Blocks from i on, the constants the second pass of
\* the folding holds when it comes to the block and when it leaves it
FoldTrace(fn, i, constants) ==
    IF i > Len(fn.blocks) THEN <<>>
    ELSE LET r == FoldBlock(fn.bb[fn.blocks[i]].instrs, 1, constants)
         IN  <<[before |-> constants, after |-> r.constants]>>
                 \o FoldTrace(fn, i + 1, r.constants)

\* the constants when the second pass comes to instruction k of block i
ConstantsAt(fn, i, k) ==
    LET trace == FoldTrace(fn, 1, CollectConstants(AllInstrs(fn), 1, EmptyMap))
    IN  FoldBlock(SubSeq(fn.bb[fn.blocks[i]].instrs, 1, k - 1), 1,
                  trace[i].before).constants

\* the constants when the second pass has ended
ConstantsAfter(fn) ==
    LET trace == FoldTrace(fn, 1, CollectConstants(AllInstrs(fn), 1, EmptyMap))
    IN  IF trace = <<>> THEN EmptyMap ELSE trace[Len(trace)].after

\* the places <<i, k>> of fn where a division or a modulo has a divisor that
\* the pass knows to be the constant 0
ZeroDivisions(fn) ==
    {p \in UNION {{<<i, k>> : k \in DOMAIN fn.bb[fn.blocks[i]].instrs} :
                    i \in DOMAIN fn.blocks} :
        LET instr == fn.bb[fn.blocks[p[1]]].instrs[p[2]]
        IN  /\ instr.op = "binop"
            /\ instr.bop \in {"/", "%"}
            /\ getConstantValue(instr.r, ConstantsAt(fn, p[1], p[2]))
                  = [t |-> "int", c |-> 0]}

\* C20: the constant folding pass leaves every division and modulo by the
\* constant 0 of a verified function in its place as it was and does not
\* record its destination as a constant, and the optimize stage reports no
\* error
ZeroDivisionNotFolded ==
    (Ran("verify") /\ DiagnosticsOf("verify") = <<>>) =>
        /\ \A n \in DOMAIN unoptimized.functions :
              \A p \in ZeroDivisions(unoptimized.functions[n]) :
                 LET fn == unoptimized.functions[n]
                     instr == fn.bb[fn.blocks[p[1]]].instrs[p[2]]
                 IN  /\ ConstantFolding(fn).bb[fn.blocks[p[1]]].instrs[p[2]] = instr
                     /\ instr.dest \notin DOMAIN ConstantsAfter(fn)
        /\ Ran("optimize") => DiagnosticsOf("optimize") = <<>>

\* func f(n int) int { return 6 / 0; } has been optimized and still divides
ZeroDivisionKept ==
    /\ file = <<FuncF(<<Return(Bin("/", IntLit(6), IntLit(0)))>>)>>
    /\ pc = "done"
    /\ ZeroDivisions(unoptimized.functions[1]) # {}
    /\ \E i \in DOMAIN module.functions[1].bb[EntryBlock].instrs :
          LET instr == module.functions[1].bb[EntryBlock].instrs[i]
          IN  /\ instr.op = "binop"
              /\ instr.bop = "/"
              /\ instr.r = ConstV("int", 0)

\* ------------------------------------------------------------------------
\* The builder's blocks: terminators and successor lists
\* ------------------------------------------------------------------------

\* no instruction of the block before its last one is a Jump, a Branch or a
\* Return
TerminatorOnlyLast(blk) ==
    \A k \in 1..(Len(blk.instrs) - 1) : ~IsTerminator(blk.instrs[k])

\* C21: in every block of a module Builder.Build has produced, a Jump, a
\* Branch or a Return occurs only as the last instruction, whatever
\* statements follow a return, a break or a continue in the source
TerminatorsOnlyLast ==
    (Ran("build") /\ ~Ran("optimize")) =>
        \A i \in 1..Len(module.functions) :
            \A blk \in Range(module.functions[i].blocks) :
                TerminatorOnlyLast(module.functions[i].bb[blk])

\* C22: at the end of Builder.Build the successor list of every block is the
\* set of the blocks its terminator targets (none for a Return), also for
\* the jumps of break and continue and of a for loop without a condition
SuccessorsMatchTerminator ==
    (Ran("build") /\ ~Ran("optimize")) =>
        \A i \in 1..Len(module.functions) :
            \A blk \in Range(module.functions[i].blocks) :
                Range(module.functions[i].bb[blk].succs)
                    = Targets(Terminator(module.functions[i].bb[blk]))

\* ------------------------------------------------------------------------
\* Dead code elimination: the definitions of the values still read
\* ------------------------------------------------------------------------

\* the values the instructions of the function's blocks define
DefinedIn(fn) == {Result(instr) : instr \in Range(AllInstrs(fn))} \ {NilV}

\* the values that an instruction of after reads, that before defines and
\* that after no longer defines
Undefined(before, after) ==
    (UsesOf(AllInstrs(after)) \cap DefinedIn(before)) \ DefinedIn(after)

\* C23: after dead code elimination every operand of a remaining
\* instruction that an instruction defined before the pass is still defined
\* by a remaining instruction, also when a variable has several defining
\* Copy instructions
OperandsStayDefined ==
    Ran("optimize") =>
        \A i \in 1..Len(module.functions) :
            Undefined(ConstantFolding(unoptimized.functions[i]),
                      module.functions[i]) = {}

\* ------------------------------------------------------------------------
\* Dead code elimination: predecessor and successor lists
\* ------------------------------------------------------------------------

\* the predecessor and successor lists of the function's blocks mirror each
\* other and name blocks of the function's block list only
LinksConsistent(fn) ==
    LET remaining == Range(fn.blocks)
    IN /\ \A a \in remaining : \A b \in remaining :
             (b \in Range(fn.bb[a].succs)) <=> (a \in Range(fn.bb[b].preds))
       /\ \A a \in remaining :
             Range(fn.bb[a].succs) \cup Range(fn.bb[a].preds) \subseteq remaining

\* C24: after dead code elimination, unreachable-block removal included,
\* B is a successor of A iff A is a predecessor of B for all remaining
\* blocks, and every block a predecessor or successor list names is still
\* in the function's block list
LinksStayConsistent ==
    Ran("optimize") =>
        \A i \in 1..Len(module.functions) : LinksConsistent(module.functions[i])

\* ------------------------------------------------------------------------
\* Parser.ParseFile: the package clause, the imports and the loop over the
\* top-level declarations.  Of parseDecl the cases var and func, of
\* parseStmt the cases of a block, return, var and an expression statement
\* are modelled; the files parsed hold no other keyword.  A statement or a
\* declaration is returned as s, NoStmt for nil.
\* ------------------------------------------------------------------------

\* Parser.isAtEnd
ParserIsAtEnd(p) == p.current.type = "TokenEOF"

\* "for p.match(tokenType) { body }" with a body that the model leaves out
RECURSIVE SkipAll(_, _)
SkipAll(p, tokenType) ==
    IF check(p, tokenType) THEN SkipAll(ParserAdvance(p), tokenType) ELSE p

\* parsePackageDecl, after the keyword
parsePackageDecl(p) ==
    IF ~check(p, "TokenIdentifier") THEN ParserError(p, "expected package name")
    ELSE ParserAdvance(p)

\* parseImportDecl, after the keyword
parseImportDecl(p) ==
    With([p1 \in {IF check(p, "TokenIdentifier") THEN ParserAdvance(p) ELSE p} |->
      IF ~check(p1, "TokenString")
      THEN ParserError(p1, "expected import path (string)")
      ELSE ParserAdvance(p1)])

\* "for p.match(lexer.TokenImport) { ... p.parseImportDecl() }"
RECURSIVE Imports(_)
Imports(p) ==
    IF check(p, "TokenImport") THEN Imports(parseImportDecl(ParserAdvance(p)))
    ELSE p

parseType(p) ==
    IF ~check(p, "TokenIdentifier")
    THEN [p |-> ParserError(p, "expected type name"), e |-> NoExpr]
    ELSE [p |-> ParserAdvance(p), e |-> Id(p.current.lexeme)]

\* the loop over the names of parseVarDecl
RECURSIVE VarNames(_, _)
VarNames(p, names) ==
    Strict(p,
    IF Unwinding(p) THEN [p |-> p, names |-> names]
    ELSE IF ~check(p, "TokenIdentifier")
    THEN [p |-> Panic(ParserError(p, "expected variable name")), names |-> names]
    ELSE IF check(ParserAdvance(p), "TokenComma")
    THEN VarNames(ParserAdvance(ParserAdvance(p)), Append(names, p.current.lexeme))
    ELSE [p |-> ParserAdvance(p), names |-> Append(names, p.current.lexeme)])

\* parseVarDecl, after the keyword
parseVarDecl(p) ==
    With([n \in {VarNames(p, <<>>)} |->
    With([typeExpr \in {IF ~check(n.p, "TokenAssign") /\ ~check(n.p, "TokenSemicolon")
                        THEN parseType(n.p)
                        ELSE [p |-> n.p, e |-> NoExpr]} |->
    With([initializer \in {IF check(typeExpr.p, "TokenAssign")
                           THEN parseExpression(ParserAdvance(typeExpr.p))
                           ELSE [p |-> typeExpr.p, e |-> NoExpr]} |->
    With([p1 \in {IF typeExpr.e = NoExpr /\ initializer.e = NoExpr
                  THEN ParserError(initializer.p,
                                   "variable declaration must have either type or initializer")
                  ELSE initializer.p} |->
      [p |-> consume(p1, "TokenSemicolon", "expected ';' after variable declaration"),
       s |-> VarDecl(n.names, typeExpr.e, initializer.e)]])])])])

\* the loop over the parameters of parseParameters
RECURSIVE Parameters(_, _)
Parameters(p, params) ==
    Strict(p,
    IF Unwinding(p) THEN [p |-> p, params |-> params]
    ELSE IF ~check(p, "TokenIdentifier")
    THEN [p |-> ParserError(p, "expected parameter name"), params |-> params]
    ELSE With([typeExpr \in {parseType(ParserAdvance(p))} |->
           IF check(typeExpr.p, "TokenComma")
           THEN Parameters(ParserAdvance(typeExpr.p),
                           Append(params, Param(p.current.lexeme, typeExpr.e)))
           ELSE [p |-> typeExpr.p,
                 params |-> Append(params, Param(p.current.lexeme, typeExpr.e))]]))

parseParameters(p) ==
    IF check(p, "TokenRightParen") THEN [p |-> p, params |-> <<>>]
    ELSE Parameters(p, <<>>)

\* Parser.synchronize
RECURSIVE SkipToBoundary(_)
SkipToBoundary(p) ==
    Strict(p,
    IF ParserIsAtEnd(p) THEN p
    ELSE IF p.previous.type = "TokenSemicolon" THEN p
    ELSE IF p.current.type \in {"TokenFunc", "TokenVar", "TokenFor", "TokenIf",
                                "TokenWhile", "TokenReturn", "TokenStruct",
                                "TokenTypeKeyword"}
    THEN p
    ELSE SkipToBoundary(ParserAdvance(p)))

synchronize(p) == SkipToBoundary([p EXCEPT !.panicMode = FALSE])

\* the deferred function of parseDecl and of parseStmt
Recover(p) ==
    IF p.panicking /\ ~p.hung THEN synchronize([p EXCEPT !.panicking = FALSE])
    ELSE p

\* the result of a function that recovers: nil after a panic
Recovered(r) == [p |-> Recover(r.p), s |-> IF Unwinding(r.p) THEN NoStmt ELSE r.s]

\* the iteration of a loop left the parser as it found it: every further
\* iteration does the same
Repeats(p, q) ==
    /\ ~Unwinding(q)
    /\ q.lexer = p.lexer /\ q.current = p.current /\ q.previous = p.previous
    /\ q.panicMode = p.panicMode

RECURSIVE parseStmt(_)
RECURSIVE parseBlockStmt(_)
RECURSIVE Statements(_, _)

parseReturnStmt(p) ==
    With([value \in {IF ~check(p, "TokenSemicolon") THEN parseExpression(p)
                     ELSE [p |-> p, e |-> NoExpr]} |->
      [p |-> consume(value.p, "TokenSemicolon", "expected ';' after return statement"),
       s |-> Return(value.e)]])

parseExprStmt(p) ==
    With([expr \in {parseExpression(p)} |->
      [p |-> consume(expr.p, "TokenSemicolon", "expected ';' after expression"),
       s |-> ExprStmt(expr.e)]])

\* "for !p.check(lexer.TokenRightBrace) && !p.isAtEnd() { ... p.parseStmt() }"
Statements(p, statements) ==
    Strict(p,
    IF Unwinding(p) \/ check(p, "TokenRightBrace") \/ ParserIsAtEnd(p)
    THEN [p |-> p, statements |-> statements]
    ELSE With([r \in {parseStmt(p)} |->
           IF Repeats(p, r.p)
           THEN [p |-> [r.p EXCEPT !.hung = TRUE], statements |-> statements]
           ELSE Statements(r.p, Append(statements, r.s))]))

parseBlockStmt(p) ==
    Strict(p,
    IF Unwinding(p) THEN [p |-> p, s |-> NoStmt]
    ELSE With([r \in {Statements(consume(p, "TokenLeftBrace", "expected '{'"), <<>>)} |->
           [p |-> consume(r.p, "TokenRightBrace", "expected '}'"),
            s |-> Block(r.statements)]]))

parseStmt(p) ==
    Strict(p,
    IF Unwinding(p) THEN [p |-> p, s |-> NoStmt]
    ELSE Recovered(
           CASE check(p, "TokenLeftBrace") -> parseBlockStmt(p)
             [] check(p, "TokenReturn") -> parseReturnStmt(ParserAdvance(p))
             [] check(p, "TokenVar") -> parseVarDecl(ParserAdvance(p))
             [] OTHER -> parseExprStmt(p)))

\* parseFuncDecl, after the keyword
parseFuncDecl(p) ==
    IF ~check(p, "TokenIdentifier")
    THEN [p |-> Panic(ParserError(p, "expected function name")), s |-> NoStmt]
    ELSE With([r \in {parseParameters(
                         consume(ParserAdvance(p), "TokenLeftParen",
                                 "expected '(' after function name"))} |->
         With([p1 \in {consume(r.p, "TokenRightParen", "expected ')' after parameters")} |->
         With([returnType \in {IF ~check(p1, "TokenLeftBrace") THEN parseType(p1)
                               ELSE [p |-> p1, e |-> NoExpr]} |->
         With([body \in {IF check(returnType.p, "TokenLeftBrace")
                         THEN parseBlockStmt(returnType.p)
                         ELSE [p |-> ParserError(returnType.p, "expected function body"),
                               s |-> NoStmt]} |->
            [p |-> body.p,
             s |-> FuncDecl(p.current.lexeme, r.params, returnType.e, body.s)]])])])])

parseDecl(p) ==
    Recovered(
      CASE check(p, "TokenVar") -> parseVarDecl(ParserAdvance(p))
        [] check(p, "TokenFunc") -> parseFuncDecl(ParserAdvance(p))
        [] OTHER -> [p |-> Panic(ParserError(p, "expected declaration")),
                     s |-> NoStmt])

\* the spelling of the tokens of the files, and the text of a list of them
\* with a blank after each
Spelling ==
    {<<"p", "a", "c", "k", "a", "g", "e">>, <<"v", "a", "r">>,
     <<"f", "u", "n", "c">>, <<"r", "e", "t", "u", "r", "n">>, <<"x">>, <<"1">>,
     <<"(">>, <<")">>, <<"{">>, <<"}">>, <<";">>, <<"=">>, <<",">>}

RECURSIVE Spell(_)
Spell(words) ==
    IF words = <<>> THEN <<>> ELSE Head(words) \o <<" ">> \o Spell(Tail(words))

MaxWords == 3

MaxErrors == 3

\* package x, then the beginning of a declaration, then at most MaxWords
\* tokens
Beginnings ==
    {<<>>,
     <<<<"v", "a", "r">>, <<"x">>, <<"=">>, <<"1">>, <<";">>>>,
     <<<<"f", "u", "n", "c">>, <<"x">>, <<"(">>, <<")">>, <<"{">>>>,
     <<<<"f", "u", "n", "c">>, <<"x">>, <<"(">>, <<")">>, <<"{">>, <<"x">>, <<";">>>>}

Files ==
    {Spell(<<<<"p", "a", "c", "k", "a", "g", "e">>, <<"x">>>> \o beginning \o rest) :
        beginning \in Beginnings, rest \in SeqsUpTo(Spelling, MaxWords)}

\* a parser has been made for a file; parsing is the place ParseFile has
\* reached and tree the declarations it has appended to file.Decls
FileInit ==
    /\ parser \in {NewParser(NewLexer(src)) : src \in Files}
    /\ tree = <<>>
    /\ parsing = "package"
    /\ DriverIdle /\ LexerIdle /\ SymtabIdle /\ TypesIdle

\* ParseFile up to the loop over the declarations
ParsePrologue ==
    /\ parsing = "package"
    /\ \E p1 \in {SkipAll(parser, "TokenComment")} :
          parser' = Imports(IF check(p1, "TokenPackage")
                            THEN parsePackageDecl(ParserAdvance(p1))
                            ELSE ParserError(p1, "expected 'package' declaration at start of file"))
    /\ parsing' = "decls"
    /\ UNCHANGED <<tree, driverVars, lexerVars, symtabVars, typeVars>>

\* an iteration of "for !p.isAtEnd()" in ParseFile
ParseDeclaration ==
    /\ parsing = "decls"
    /\ ~ParserIsAtEnd(parser)
    /\ ~parser.hung
    /\ Len(parser.errors) < MaxErrors
    /\ IF check(parser, "TokenComment")
       THEN parser' = ParserAdvance(parser) /\ tree' = tree
       ELSE \E decl \in {parseDecl(parser)} :
               /\ parser' = decl.p
               /\ tree' = IF decl.s # NoStmt THEN Append(tree, decl.s) ELSE tree
    /\ UNCHANGED <<parsing, driverVars, lexerVars, symtabVars, typeVars>>

\* "return file, p.errors"
ParseFileReturns ==
    /\ parsing = "decls"
    /\ ParserIsAtEnd(parser)
    /\ parsing' = "returned"
    /\ UNCHANGED <<parser, tree, driverVars, lexerVars, symtabVars, typeVars>>

FileNext == ParsePrologue \/ ParseDeclaration \/ ParseFileReturns

FileSpec == FileInit /\ [][FileNext]_vars

\* ------------------------------------------------------------------------
\* C25: ParseFile terminates
\* ------------------------------------------------------------------------

\* an iteration of the loop over the declarations consumes a token or
\* reaches the end of the input
DeclarationStep ==
    (parsing = "decls" /\ parsing' = "decls") =>
        \/ parser'.lexer.current > parser.lexer.current
        \/ ParserIsAtEnd(parser')

\* C25: every iteration of the loop over the top-level declarations and of
\* the loop over the statements of a block, those that end in synchronize
\* included, consumes a token or reaches the end of the input, so that
\* ParseFile terminates
ParseFileTerminates ==
    /\ [][DeclarationStep]_vars
    /\ [](~parser.hung)

\* ------------------------------------------------------------------------
\* C26: the value of an identifier after a shadowing block
\* ------------------------------------------------------------------------

RECURSIVE CountDecls(_)
\* the number of local variables the statements declare, inner blocks
\* included: the builder appends one value to fn.locals for each
CountDecls(stmts) ==
    IF stmts = <<>> THEN 0
    ELSE (CASE Head(stmts).s = "var" -> Len(Head(stmts).names)
            [] Head(stmts).s = "block" -> CountDecls(Head(stmts).body)
            [] OTHER -> 0)
         + CountDecls(Tail(stmts))

\* the declarations of name among the first statements of the body, inner
\* blocks excluded, by their place in fn.locals
DeclaredAt(body, name) ==
    UNION {{CountDecls(SubSeq(body, 1, i - 1)) + k :
               k \in {m \in 1..Len(body[i].names) : body[i].names[m] = name}} :
           i \in {j \in 1..Len(body) : body[j].s = "var"}}

\* the value the scope rules bind name to at the end of the body: the last
\* declaration in the body's own scope, else the parameter
BoundValue(fn, body, name) ==
    IF DeclaredAt(body, name) # {}
    THEN fn.locals[CHOOSE d \in DeclaredAt(body, name) :
                      \A other \in DeclaredAt(body, name) : other <= d]
    ELSE CHOOSE v \in Range(fn.params) : v.name = name

\* straight-line functions whose body ends in "return name;" with name a
\* local variable of the body's scope or a parameter
ReturnsName(decl, fn) ==
    /\ decl.s = "func"
    /\ Len(fn.blocks) = 1
    /\ decl.body.body # <<>>
    /\ \A i \in 1..Len(decl.body.body) :
          decl.body.body[i].s \in {"var", "block", "expr", "return"}
    /\ decl.body.body[Len(decl.body.body)].s = "return"
    /\ decl.body.body[Len(decl.body.body)].value.e = "id"
    /\ \/ DeclaredAt(decl.body.body, decl.body.body[Len(decl.body.body)].value.name) # {}
       \/ \E v \in Range(fn.params) :
             v.name = decl.body.body[Len(decl.body.body)].value.name

\* C26: an identifier is lowered to the IR value of the declaration the
\* scope lookup binds it to: "return name;" at the end of a body returns the
\* value of the body's own variable or of the parameter, also after an
\* inner block that declared the name again
IdentifierFollowsScope ==
    (Ran("build") /\ ~Ran("optimize") /\ Len(module.functions) = Len(file)) =>
        \A i \in 1..Len(file) :
            ReturnsName(file[i], module.functions[i]) =>
                LET instrs == module.functions[i].bb[EntryBlock].instrs
                    body == file[i].body.body
                IN instrs[Len(instrs)].val
                      = BoundValue(module.functions[i], body, body[Len(body)].value.name)

\* ------------------------------------------------------------------------
\* C27: the operands of the instructions built
\* ------------------------------------------------------------------------

\* C27: every instruction of a module built from a file that the analyzer
\* accepted without a diagnostic has all its value operands, the source of
\* the Copy of a variable initialiser among them, and the optimizer runs to
\* completion on it
OperandsPresent ==
    /\ Ran("build") =>
          \A i \in 1..Len(module.functions) :
              NilV \notin UsesOf(AllInstrs(module.functions[i]))
    /\ pc # "panic"

\* ------------------------------------------------------------------------
\* C28: Analyze called again
\* ------------------------------------------------------------------------

\* C28: a second call of Analyze on the analyzer that has analysed the file
\* returns the diagnostics the first call returned, in the same order
AnalyzeRepeatable ==
    Ran("semantic") => Analyze(analyzer, file).errors = DiagnosticsOf("semantic")

\* ------------------------------------------------------------------------
\* C29: the targets of break and continue
\* ------------------------------------------------------------------------

RECURSIVE JumpsOfStmt(_, _)
RECURSIVE JumpsOfStmts(_, _, _)

\* the jumps the language gives the break and continue statements of a
\* function body.  w.n counts the blocks made so far, w.cur is the block
\* being filled, w.brk and w.cont are the end and the condition or post
\* block of the innermost enclosing loop (0 outside a loop), w.jumps the
\* pairs of a block and the target of a jump in it.  A loop makes its
\* blocks in the order cond, body, (post,) end, an if in the order then,
\* end, (else); the statement after a loop or an if goes to its end block.
\* buildStmt has no case for a switch: the statements of its cases are not
\* lowered and give no jump.
JumpsOfStmts(stmts, i, w) ==
    IF i > Len(stmts) THEN w ELSE JumpsOfStmts(stmts, i + 1, JumpsOfStmt(stmts[i], w))

JumpsOfStmt(s, w) ==
    CASE s.s = "block" -> JumpsOfStmts(s.body, 1, w)
      [] s.s = "while" ->
            [JumpsOfStmt(s.body, [w EXCEPT !.n = w.n + 3, !.cur = w.n + 2,
                                           !.brk = w.n + 3, !.cont = w.n + 1])
                EXCEPT !.cur = w.n + 3, !.brk = w.brk, !.cont = w.cont]
      [] s.s = "for" ->
            LET w0 == IF s.init # NoStmt THEN JumpsOfStmt(s.init, w) ELSE w
            IN [JumpsOfStmt(s.body, [w0 EXCEPT !.n = w0.n + 4, !.cur = w0.n + 2,
                                               !.brk = w0.n + 4, !.cont = w0.n + 3])
                   EXCEPT !.cur = w0.n + 4, !.brk = w0.brk, !.cont = w0.cont]
      [] s.s = "if" ->
            LET blocks == IF s.else # NoStmt THEN 3 ELSE 2
                w1 == JumpsOfStmt(s.then, [w EXCEPT !.n = w.n + blocks, !.cur = w.n + 1])
                w2 == IF s.else # NoStmt
                      THEN JumpsOfStmt(s.else, [w1 EXCEPT !.cur = w.n + 3])
                      ELSE w1
            IN [w2 EXCEPT !.cur = w.n + 2]
      [] s.s = "break" ->
            IF w.brk # 0 THEN [w EXCEPT !.jumps = @ \cup {<<w.cur, w.brk>>}] ELSE w
      [] s.s = "continue" ->
            IF w.cont # 0 THEN [w EXCEPT !.jumps = @ \cup {<<w.cur, w.cont>>}] ELSE w
      [] OTHER -> w

JumpsOf(decl) ==
    JumpsOfStmt(decl.body,
                [n |-> 1, cur |-> EntryBlock, brk |-> 0, cont |-> 0, jumps |-> {}]).jumps

\* the pairs of a block of the function and the target of a Jump in it
JumpsIn(fn) ==
    UNION {{<<blk, fn.bb[blk].instrs[k].target>> :
               k \in {j \in 1..Len(fn.bb[blk].instrs) : fn.bb[blk].instrs[j].op = "jump"}} :
           blk \in 1..Len(fn.bb)}

\* the end blocks of the loops of the function
LoopEnds(fn) == {blk \in 1..Len(fn.bb) : fn.bb[blk].label \in {"while.end", "for.end"}}

\* C29: in a module Builder.Build has produced, a break has emitted a Jump
\* to the end block of the innermost enclosing loop and a continue a Jump to
\* that loop's condition block (while) or post block (for), in the block
\* being filled; after a nested loop the targets are again those of the
\* outer loop; and the Jumps to loop end blocks are those of the breaks
BreakContinueTargets ==
    (Ran("build") /\ ~Ran("optimize") /\ Len(module.functions) = Len(file)) =>
        \A i \in 1..Len(file) :
            /\ JumpsOf(file[i]) \subseteq JumpsIn(module.functions[i])
            /\ \A j \in JumpsIn(module.functions[i]) :
                  j[2] \in LoopEnds(module.functions[i]) => j \in JumpsOf(file[i])

\* f's body is while (n < 3) { while (n < 3) { break; } continue; }: the
\* inner break has jumped to the inner end block and the continue after the
\* inner loop, in that end block, to the outer condition block
ContinueAfterNestedLoop ==
    /\ Ran("build") /\ ~Ran("optimize")
    /\ file = <<FuncF(<<While(Small, Block(<<While(Small, Block(<<Break>>)), Continue>>)),
                        Return(Id("n"))>>)>>
    /\ JumpsOf(file[1]) = {<<6, 7>>, <<7, 2>>}
    /\ JumpsOf(file[1]) \subseteq JumpsIn(module.functions[1])

\* ------------------------------------------------------------------------
\* C30: postfix ++ and --
\* ------------------------------------------------------------------------

\* C30: for every source that is an operand followed by ++ or --,
\* parseExpression returns, without reporting an error, the unary expression
\* of that operator that is marked postfix and whose operand is the tree of
\* the preceding expression, and has consumed the operator
PostfixParsed ==
    tree # <<>> =>
        \A operand \in PostfixOperands, op \in PostfixOperators, blank \in {<<>>, <<" ">>} :
            parser.lexer.source = operand \o blank \o op =>
                /\ tree[1] = Put(Un(NextToken(NewLexer(op)).tok.type,
                                    parseExpression(NewParser(NewLexer(operand))).e),
                                 "postfix", TRUE)
                /\ parser.errors = <<>>
                /\ parser.current.type = "TokenEOF"

====
